---- MODULE Spec2Model ----
(***************************************************************************)
(* Wallet authentication gate of wallet-auth-system/wallet-auth.js         *)
(* (class WalletAuthController): the loading -> auth -> main content       *)
(* screens, silent resume from localStorage, the three wallet adapters,    *)
(* the setTimeout callbacks and forceReauth.                               *)
(*                                                                         *)
(* Time is Date.now() in milliseconds.  setTimeout callbacks are kept in   *)
(* the sequence timers in creation order; a callback runs when the clock   *)
(* has reached its due time, earliest due time first and creation order    *)
(* among equal due times.  The clock advances to the next due time.  User  *)
(* clicks, provider answers and forceReauth calls are separate event-loop  *)
(* tasks and interleave freely with the callbacks.                         *)
(***************************************************************************)
EXTENDS Integers, Sequences, FiniteSets, TLC

VARIABLES
  now,                \* Date.now()
  pc,                 \* "start" (before new WalletAuthController), "init" (init awaiting), "ready"
  verifying,          \* wallet type whose silent provider call init() is awaiting, or "none"
  loadingDuration,    \* this.loadingDuration
  isAuthenticated,    \* this.isAuthenticated
  connectedWallet,    \* this.connectedWallet
  storage,            \* localStorage['micro_wallet_connection']
  solana,             \* window.solana
  ethereum,           \* window.ethereum
  solflare,           \* window.solflare
  attempts,           \* connectWallet calls in flight, per wallet type
  timers,             \* pending setTimeout callbacks
  loadingScreen,      \* #loadingScreen  [display, classes]
  authScreen,         \* #authScreen     [display, classes]
  mainContent,        \* #mainContent    [display, classes]
  progressBar,        \* #progressBar style.width, in hundredths of a percent
  loadingPercentage,  \* #loadingPercentage textContent, in percent
  buttons,            \* .wallet-card controls, per wallet type
  events,             \* CustomEvents dispatched on window, in order
  provCalls,          \* number of invocations of each provider operation
  logged,             \* per wallet type, message of the last error caught by connectWallet
  nReauth,            \* number of forceReauth calls
  nClicks,            \* number of wallet-card clicks
  nLoadingStarts,     \* number of startLoadingSequence calls
  nAuthShown,         \* number of times the auth screen was displayed
  loaded,             \* the localStorage value found at page load
  silentAnswer,       \* the provider's answer to init's silent check
  answer,             \* per wallet type, the provider's last answer to an interactive connect
  reauthFrom,         \* the screens and wallet at the last forceReauth call
  detection,          \* setupWalletDetection: its listeners, its setTimeout callbacks, its log
  proxy,              \* the handler of one GET /api/pump/tokens request of the proxy server
  visits,             \* the page loads of one browser profile and what they found
  debounced           \* one function returned by MicroUtils.debounce: its closure and its calls

gateVars == <<now, pc, verifying, loadingDuration, isAuthenticated, connectedWallet,
              storage, solana, ethereum, solflare, attempts, timers,
              loadingScreen, authScreen, mainContent, progressBar, loadingPercentage,
              buttons, events, provCalls, logged, nReauth, nClicks, nLoadingStarts,
              nAuthShown, loaded, silentAnswer, answer, reauthFrom>>
vars == <<now, pc, verifying, loadingDuration, isAuthenticated, connectedWallet,
          storage, solana, ethereum, solflare, attempts, timers,
          loadingScreen, authScreen, mainContent, progressBar, loadingPercentage,
          buttons, events, provCalls, logged, nReauth, nClicks, nLoadingStarts,
          nAuthShown, loaded, silentAnswer, answer, reauthFrom, detection, proxy,
          visits, debounced>>

(***************************************************************************)
(* Bounds of the model                                                     *)
(***************************************************************************)
\* forceReauth calls and wallet-card clicks in one run
MaxOps == 2

(***************************************************************************)
(* Program constants                                                       *)
(***************************************************************************)
DefaultLoadingDuration == 2000
updateInterval == 50
SettleDelay == 500
AuthFadeDelay == 1000
SuccessDelay == 1500
MainFadeDelay == 1000
ErrorResetDelay == 3000
SessionLifetime == 24 * 60 * 60 * 1000
UserRejectedCode == 4001
AlreadyPendingCode == 0 - 32002

WalletTypes == {"phantom", "metamask", "solflare"}

\* options.loadingDuration values passed to the constructor; 0 stands for an
\* absent (falsy) option
LoadingDurationOptions == {100}

\* Date.now() when the page is loaded
PageLoadTime == 2 * SessionLifetime

Keys == {"K1", "K2"}
NoKey == ""

Min(a, b) == IF a < b THEN a ELSE b

(***************************************************************************)
(* Values                                                                  *)
(***************************************************************************)
NoWallet == [type |-> "none", publicKey |-> NoKey, address |-> NoKey]

\* mutant: the address is left out of the wallet object
Wallet_NoAddress(type, key) == [type |-> type, publicKey |-> key, address |-> NoKey]

\* the wallet object built by an adapter and by verifyWalletConnection
Wallet(type, key) == [type |-> type, publicKey |-> key, address |-> key]

\* localStorage value: kind "absent" is getItem() = null, kind "object" is
\* the JSON text of an object with the given fields, kind "text" is text that
\* JSON.parse rejects, kind "null" is the JSON text null and kind "scalar" is
\* the JSON text of a number, string or boolean
Absent == [kind |-> "absent", walletType |-> "none", hasTimestamp |-> FALSE,
           timestamp |-> 0, publicKey |-> NoKey, address |-> NoKey]

Record(type, ts, pk, addr) ==
  [kind |-> "object", walletType |-> type, hasTimestamp |-> TRUE,
   timestamp |-> ts, publicKey |-> pk, address |-> addr]

\* the JSON text of an object without a timestamp field
RecordNoTimestamp(type, pk, addr) ==
  [kind |-> "object", walletType |-> type, hasTimestamp |-> FALSE,
   timestamp |-> 0, publicKey |-> pk, address |-> addr]

\* stored values that are not the JSON text of an object
Malformed(kind) ==
  [kind |-> kind, walletType |-> "none", hasTimestamp |-> FALSE,
   timestamp |-> 0, publicKey |-> NoKey, address |-> NoKey]

ConnectedEvent(wallet) == [name |-> "walletConnected", detail |-> wallet]
DisconnectedEvent == [name |-> "walletDisconnected", detail |-> NoWallet]

Element(display, classes) == [display |-> display, classes |-> classes]

\* an element is shown unless its inline display is 'none' or it carries the
\* 'hidden' class
Visible(el) == el.display # "none" /\ "hidden" \notin el.classes

\* mutant: the 'hidden' class is removed and the display left alone
Hide_RemovesClass(el) == Element(el.display, el.classes \ {"hidden"})

\* style.display = 'none' with classList.add('hidden')
Hide(el) == Element("none", el.classes \cup {"hidden"})

\* style.display = '' with classList.remove('hidden')
Show(el) == Element("", el.classes \ {"hidden"})

LoadingVisible == Visible(loadingScreen)
AuthVisible == Visible(authScreen)
MainVisible == Visible(mainContent)

IdleName(w) == w
IdleConnect == "CONNECT"

InitialButton(w) ==
  [walletName |-> IdleName(w), connectText |-> IdleConnect,
   disabled |-> FALSE, pointerEvents |-> ""]

NoAttempt == [phase |-> "idle", originalName |-> "", originalConnect |-> ""]

\* answers of a provider to the silent check
NotAsked == [kind |-> "notAsked", key |-> NoKey]
SilentResolve(key) == [kind |-> "resolve", key |-> key]
SilentReject == [kind |-> "reject", key |-> NoKey]

\* an Error without a code property
Error(message) == [code |-> 0, message |-> message]

NoError == Error(<<>>)

\* answers of a provider to an interactive connect.  via says where the key
\* is found: in the response, in a property of the provider object
\* (publicKey, selectedAddress) or in its nested wallet object
Resolve(key, via) == [kind |-> "resolve", key |-> key, via |-> via, error |-> NoError]
Reject(error) == [kind |-> "reject", key |-> NoKey, via |-> "none", error |-> error]
NoAnswer == [kind |-> "none", key |-> NoKey, via |-> "none", error |-> NoError]

NoReauth == [called |-> FALSE, loading |-> FALSE, auth |-> FALSE, main |-> FALSE,
             authenticated |-> FALSE, type |-> "none"]

\* window.solflare: undefined, or an object with its isSolflare flag, its
\* isConnected flag, its publicKey property and its wallet.publicKey
SolflareAbsent ==
  [present |-> FALSE, isSolflare |-> FALSE, isConnected |-> FALSE,
   publicKey |-> NoKey, walletKey |-> NoKey]

SolflareState(conn, pk, wk) ==
  [present |-> TRUE, isSolflare |-> TRUE, isConnected |-> conn,
   publicKey |-> pk, walletKey |-> wk]

\* an object at window.solflare that does not identify as Solflare
SolflareUnidentified(conn, pk, wk) ==
  [SolflareState(conn, pk, wk) EXCEPT !.isSolflare = FALSE]

\* setupWalletDetection has not run: no listener, no callback, nothing logged
NoDetection ==
  [ethereumListener |-> FALSE, phantomListener |-> FALSE, loadListener |-> FALSE,
   pageLoaded |-> FALSE, timers |-> <<>>, polls |-> 0, manual |-> 0, runs |-> 0,
   seen |-> [phantom |-> FALSE, metamask |-> FALSE, solflare |-> FALSE]]

\* the proxy server before a request arrives: no endpoint contacted, no abort
\* timer pending, nothing answered
ProxyIdle ==
  [pc |-> "idle", endpoint |-> 0, aborts |-> {}, contacted |-> <<>>,
   outcomes |-> <<>>, answers |-> <<>>]

\* the first load of the page: no earlier load, no resume yet
FirstVisit == [loads |-> 1, resumes |-> 0, connectedAt |-> 0]

\* MicroUtils.debounce has not been called
NotCreated ==
  [created |-> FALSE, wait |-> 0, immediate |-> FALSE, clock |-> 0, timeout |-> 0,
   pendingArgs |-> 0, nCalls |-> 0, lastCall |-> 0, lastArgs |-> 0,
   sinceCall |-> 0, invoked |-> <<>>]

\* a step of the page leaves the proxy server, the record of page loads and
\* the debounced function alone, and a step of the gate alone leaves wallet
\* detection alone too
PageStep == UNCHANGED <<proxy, visits, debounced>>
GateStep == UNCHANGED <<detection, proxy, visits, debounced>>

ProviderOps == {"solana.connect(onlyIfTrusted)", "ethereum.eth_accounts",
                "solflare.publicKey", "solana.connect", "solflare.disconnect",
                "solflare.connect", "ethereum.eth_requestAccounts"}

SilentOps == {"solana.connect(onlyIfTrusted)", "ethereum.eth_accounts",
              "solflare.publicKey"}

Called(op) == [provCalls EXCEPT ![op] = @ + 1]

(***************************************************************************)
(* Timers                                                                  *)
(***************************************************************************)
Timer(kind, due) ==
  [kind |-> kind, due |-> due, startTime |-> 0, wallet |-> "none",
   originalName |-> "", originalConnect |-> ""]

UpdateTimer(due, startTime) ==
  [Timer("updateProgress", due) EXCEPT !.startTime = startTime]

ResetTimer(due, w, name, connect) ==
  [Timer("resetButton", due) EXCEPT !.wallet = w, !.originalName = name,
                                    !.originalConnect = connect]

MinDue == CHOOSE d \in {timers[i].due : i \in DOMAIN timers} :
            \A j \in DOMAIN timers : d <= timers[j].due

NextTimer == CHOOSE i \in DOMAIN timers :
               /\ timers[i].due = MinDue
               /\ \A j \in DOMAIN timers : j < i => timers[j].due # MinDue

TimerReady(kind) ==
  /\ timers # <<>>
  /\ MinDue <= now
  /\ timers[NextTimer].kind = kind

Remove(seq, i) == SubSeq(seq, 1, i - 1) \o SubSeq(seq, i + 1, Len(seq))

(***************************************************************************)
(* Initial state: the page as loaded, before new WalletAuthController()    *)
(***************************************************************************)
StoredAges == {1000, SessionLifetime + 1}

StoredValues ==
  {Absent} \cup
  {Record(w, PageLoadTime - age, "K1", "K1") : w \in WalletTypes, age \in StoredAges}

\* provider objects injected by the browser extensions: Phantom and MetaMask
\* installed; providers that do not identify as Phantom / MetaMask with a
\* connected Solflare; only a Solflare that is not connected
Environments ==
  { [solana |-> "phantom", ethereum |-> "metamask", solflare |-> SolflareAbsent],
    [solana |-> "other", ethereum |-> "other",
     solflare |-> SolflareState(TRUE, "K1", NoKey)],
    [solana |-> "absent", ethereum |-> "absent",
     solflare |-> SolflareState(FALSE, NoKey, NoKey)] }

\* the page as loaded with one of the stored values and one of the
\* environments
InitWith(values, environments) ==
  /\ now = PageLoadTime
  /\ pc = "start"
  /\ verifying = "none"
  /\ loadingDuration = 0
  /\ isAuthenticated = FALSE
  /\ connectedWallet = NoWallet
  /\ storage \in values
  /\ \E env \in environments :
       /\ solana = env.solana
       /\ ethereum = env.ethereum
       /\ solflare = env.solflare
  /\ attempts = [w \in WalletTypes |-> NoAttempt]
  /\ timers = <<>>
  /\ loadingScreen = Element("", {})
  /\ authScreen = Element("", {"hidden"})
  /\ mainContent = Element("", {"hidden"})
  /\ progressBar = 0
  /\ loadingPercentage = 0
  /\ buttons = [w \in WalletTypes |-> InitialButton(w)]
  /\ events = <<>>
  /\ provCalls = [op \in ProviderOps |-> 0]
  /\ logged = [w \in WalletTypes |-> <<>>]
  /\ nReauth = 0
  /\ nClicks = 0
  /\ nLoadingStarts = 0
  /\ nAuthShown = 0
  /\ loaded = storage
  /\ silentAnswer = NotAsked
  /\ answer = [w \in WalletTypes |-> NoAnswer]
  /\ reauthFrom = NoReauth
  /\ detection = NoDetection
  /\ proxy = ProxyIdle
  /\ visits = FirstVisit
  /\ debounced = NotCreated

Init == InitWith(StoredValues, Environments)

(***************************************************************************)
(* startLoadingSequence and its updateProgress callback                    *)
(***************************************************************************)
\* Math.min((elapsed / loadingDuration) * 100, 100), in hundredths of a percent
ProgressAt(elapsed, duration) == Min((elapsed * 10000) \div duration, 10000)

\* one run of the updateProgress closure created at startTime, with the
\* pending callbacks ts
updateProgress(ts, startTime, duration) ==
  LET progress == ProgressAt(now - startTime, duration) IN
  /\ progressBar' = progress
  /\ loadingPercentage' = progress \div 100
  /\ timers' = IF progress < 10000
                 THEN Append(ts, UpdateTimer(now + updateInterval, startTime))
                 ELSE Append(ts, Timer("transitionToAuth", now + SettleDelay))

startLoadingSequence(ts, duration) ==
  /\ updateProgress(ts, now, duration)
  /\ nLoadingStarts' = nLoadingStarts + 1

(***************************************************************************)
(* Startup: constructor, init, checkExistingConnection,                    *)
(* verifyWalletConnection, skipToMainContent                               *)
(***************************************************************************)
\* mutant: a record of exactly 24 hours counts as expired
Expired_NotStrict(data, t) == data.hasTimestamp /\ t - data.timestamp >= SessionLifetime

\* mutant: the lifetime taken as 7 days
Expired_WrongLifetime(data, t) ==
  data.hasTimestamp /\ t - data.timestamp > 7 * SessionLifetime

\* now - connectionData.timestamp > 24 * 60 * 60 * 1000 (false for a missing
\* timestamp: the difference is NaN)
Expired(data, t) == data.hasTimestamp /\ t - data.timestamp > SessionLifetime

\* JSON.parse or the read of connectionData.timestamp throws
ParseThrows(data) == data.kind \in {"text", "null"}

\* the stored value reaches verifyWalletConnection: it parses to a value
\* other than null (an object, or a number, string or boolean) that the expiry
\* test does not reject
ReachesVerify(data, t) == data.kind \in {"object", "scalar"} /\ ~Expired(data, t)

\* mutant: the stored value is removed whenever one is found
StorageAfterCheck_AlwaysRemoves(data, t) == Absent

\* checkExistingConnection's localStorage.removeItem calls
StorageAfterCheck(data, t) ==
  IF ParseThrows(data) \/ (data.kind = "object" /\ Expired(data, t))
    THEN Absent
    ELSE data

\* verifyWalletConnection awaits a provider call for this wallet type
SilentAwaits(type) ==
  \/ type = "phantom" /\ solana = "phantom"
  \/ type = "metamask" /\ ethereum = "metamask"

\* mutant: the interactive operations are invoked
SilentOp_Interactive(type) ==
  IF type = "phantom" THEN "solana.connect" ELSE "ethereum.eth_requestAccounts"

\* the provider operation verifyWalletConnection awaits
SilentOp(type) ==
  IF type = "phantom" THEN "solana.connect(onlyIfTrusted)" ELSE "ethereum.eth_accounts"

\* case 'solflare': the guard of the publicKey read
SolflareSilentReads(type) ==
  type = "solflare" /\ solflare.present /\ solflare.isConnected

\* mutant: the loading screen is left as it is
skipToMainContent_KeepsLoading(wallet) ==
  /\ loadingScreen' = loadingScreen
  /\ authScreen' = Hide(authScreen)
  /\ mainContent' = Show(mainContent)
  /\ events' = IF wallet # NoWallet THEN Append(events, ConnectedEvent(wallet))
                                    ELSE events

skipToMainContent(wallet) ==
  /\ loadingScreen' = Element("none", loadingScreen.classes \ {"fade-out"})
  /\ authScreen' = Hide(authScreen)
  /\ mainContent' = Show(mainContent)
  /\ events' = IF wallet # NoWallet THEN Append(events, ConnectedEvent(wallet))
                                    ELSE events

\* mutant: init() skips to main content whatever checkExistingConnection
\* resolved to
FinishInit_IgnoresResult(verified, wallet, duration) ==
  /\ pc' = "ready"
  /\ verifying' = "none"
  /\ connectedWallet' = wallet
  /\ isAuthenticated' = TRUE
  /\ skipToMainContent(wallet)
  /\ UNCHANGED <<timers, progressBar, loadingPercentage, nLoadingStarts>>

\* init() after checkExistingConnection has resolved to verified
FinishInit(verified, wallet, duration) ==
  /\ pc' = "ready"
  /\ verifying' = "none"
  /\ IF verified
       THEN /\ connectedWallet' = wallet
            /\ isAuthenticated' = TRUE
            /\ skipToMainContent(wallet)
            /\ UNCHANGED <<timers, progressBar, loadingPercentage, nLoadingStarts>>
       ELSE /\ startLoadingSequence(timers, duration)
            /\ UNCHANGED <<connectedWallet, isAuthenticated, loadingScreen,
                           authScreen, mainContent, events>>

\* new WalletAuthController(options): runs init() up to its first await that
\* waits for a provider; without such an await it runs init() to the end
Construct(opt) ==
  /\ pc = "start"
  /\ loadingDuration' = IF opt = 0 THEN DefaultLoadingDuration ELSE opt
  /\ storage' = StorageAfterCheck(storage, now)
  /\ LET type == storage.walletType IN
     IF ReachesVerify(storage, now) /\ SilentAwaits(type)
       THEN /\ pc' = "init"
            /\ verifying' = type
            /\ provCalls' = Called(SilentOp(type))
            /\ silentAnswer' = NotAsked
            /\ UNCHANGED <<isAuthenticated, connectedWallet, timers, loadingScreen,
                           authScreen, mainContent, progressBar, loadingPercentage,
                           events, nLoadingStarts>>
       ELSE LET reads == ReachesVerify(storage, now) /\ SolflareSilentReads(type)
                key == IF reads THEN solflare.publicKey ELSE NoKey
            IN /\ provCalls' = IF reads THEN Called("solflare.publicKey") ELSE provCalls
               /\ silentAnswer' = IF reads THEN SilentResolve(key) ELSE NotAsked
               /\ FinishInit(key # NoKey, Wallet("solflare", key), loadingDuration')
  /\ UNCHANGED <<now, solana, ethereum, solflare, attempts, buttons, logged,
                 nReauth, nClicks, nAuthShown>>
  /\ UNCHANGED <<loaded, answer, reauthFrom>>

\* answers of a provider to the silent call: a key, no key / no account, or
\* a rejection
SilentOutcomes == {SilentResolve(k) : k \in Keys \cup {NoKey}} \cup {SilentReject}

\* the provider's silent call settles and init() runs to its end
SilentSettle(out) ==
  /\ pc = "init"
  /\ silentAnswer' = out
  /\ FinishInit(out.kind = "resolve" /\ out.key # NoKey,
                Wallet(verifying, out.key), loadingDuration)
  /\ UNCHANGED <<now, loadingDuration, storage, solana, ethereum, solflare,
                 attempts, buttons, provCalls, logged, nReauth, nClicks, nAuthShown>>
  /\ UNCHANGED <<loaded, answer, reauthFrom>>

(***************************************************************************)
(* setTimeout callbacks                                                    *)
(***************************************************************************)
\* no callback is due: time passes until the next one is
Advance ==
  /\ timers # <<>>
  /\ MinDue > now
  /\ now' = MinDue
  /\ UNCHANGED <<pc, verifying, loadingDuration, isAuthenticated, connectedWallet,
                 storage, solana, ethereum, solflare, attempts, timers,
                 loadingScreen, authScreen, mainContent, progressBar,
                 loadingPercentage, buttons, events, provCalls, logged, nReauth,
                 nClicks, nLoadingStarts, nAuthShown>>
  /\ UNCHANGED <<loaded, silentAnswer, answer, reauthFrom>>

\* setTimeout(updateProgress, updateInterval) fires
UpdateProgressTimer ==
  /\ TimerReady("updateProgress")
  /\ updateProgress(Remove(timers, NextTimer), timers[NextTimer].startTime,
                    loadingDuration)
  /\ UNCHANGED <<now, pc, verifying, loadingDuration, isAuthenticated,
                 connectedWallet, storage, solana, ethereum, solflare, attempts,
                 loadingScreen, authScreen, mainContent, buttons, events,
                 provCalls, logged, nReauth, nClicks, nLoadingStarts, nAuthShown>>
  /\ UNCHANGED <<loaded, silentAnswer, answer, reauthFrom>>

\* the settle delay fires: transitionToAuth()
TransitionToAuth ==
  /\ TimerReady("transitionToAuth")
  /\ loadingScreen' = Element(loadingScreen.display,
                              loadingScreen.classes \cup {"fade-out"})
  /\ timers' = Append(Remove(timers, NextTimer),
                      Timer("showAuth", now + AuthFadeDelay))
  /\ UNCHANGED <<now, pc, verifying, loadingDuration, isAuthenticated,
                 connectedWallet, storage, solana, ethereum, solflare, attempts,
                 authScreen, mainContent, progressBar, loadingPercentage, buttons,
                 events, provCalls, logged, nReauth, nClicks, nLoadingStarts,
                 nAuthShown>>
  /\ UNCHANGED <<loaded, silentAnswer, answer, reauthFrom>>

\* the callback transitionToAuth scheduled: hide loading, show auth
ShowAuth ==
  /\ TimerReady("showAuth")
  /\ loadingScreen' = Element("none", loadingScreen.classes)
  /\ authScreen' = Element("flex", authScreen.classes \ {"hidden"})
  /\ nAuthShown' = nAuthShown + 1
  /\ timers' = Remove(timers, NextTimer)
  /\ UNCHANGED <<now, pc, verifying, loadingDuration, isAuthenticated,
                 connectedWallet, storage, solana, ethereum, solflare, attempts,
                 mainContent, progressBar, loadingPercentage, buttons, events,
                 provCalls, logged, nReauth, nClicks, nLoadingStarts>>
  /\ UNCHANGED <<loaded, silentAnswer, answer, reauthFrom>>

\* the success delay fires: transitionToMainContent()
TransitionToMainContent ==
  /\ TimerReady("transitionToMainContent")
  /\ authScreen' = Element(authScreen.display, authScreen.classes \cup {"fade-out"})
  /\ timers' = Append(Remove(timers, NextTimer),
                      Timer("showMain", now + MainFadeDelay))
  /\ UNCHANGED <<now, pc, verifying, loadingDuration, isAuthenticated,
                 connectedWallet, storage, solana, ethereum, solflare, attempts,
                 loadingScreen, mainContent, progressBar, loadingPercentage,
                 buttons, events, provCalls, logged, nReauth, nClicks,
                 nLoadingStarts, nAuthShown>>
  /\ UNCHANGED <<loaded, silentAnswer, answer, reauthFrom>>

\* the callback transitionToMainContent scheduled: hide auth, show main
ShowMain ==
  /\ TimerReady("showMain")
  /\ authScreen' = Hide(authScreen)
  /\ mainContent' = Show(mainContent)
  /\ timers' = Remove(timers, NextTimer)
  /\ UNCHANGED <<now, pc, verifying, loadingDuration, isAuthenticated,
                 connectedWallet, storage, solana, ethereum, solflare, attempts,
                 loadingScreen, progressBar, loadingPercentage, buttons, events,
                 provCalls, logged, nReauth, nClicks, nLoadingStarts, nAuthShown>>
  /\ UNCHANGED <<loaded, silentAnswer, answer, reauthFrom>>

\* the callback of connectWallet's catch block: reset the control
ResetButton ==
  /\ TimerReady("resetButton")
  /\ LET t == timers[NextTimer] IN
     buttons' = [buttons EXCEPT ![t.wallet] =
                   [walletName |-> t.originalName,
                    connectText |-> t.originalConnect,
                    disabled |-> FALSE, pointerEvents |-> ""]]
  /\ timers' = Remove(timers, NextTimer)
  /\ UNCHANGED <<now, pc, verifying, loadingDuration, isAuthenticated,
                 connectedWallet, storage, solana, ethereum, solflare, attempts,
                 loadingScreen, authScreen, mainContent, progressBar,
                 loadingPercentage, events, provCalls, logged, nReauth, nClicks,
                 nLoadingStarts, nAuthShown>>
  /\ UNCHANGED <<loaded, silentAnswer, answer, reauthFrom>>

(***************************************************************************)
(* forceReauth                                                             *)
(***************************************************************************)
\* mutant: nothing is removed
clearStoredConnection_Noop == storage

clearStoredConnection == Absent

ForceReauth ==
  /\ pc # "start"
  /\ nReauth + nClicks < MaxOps
  /\ nReauth' = nReauth + 1
  /\ reauthFrom' = [called |-> TRUE, loading |-> LoadingVisible, auth |-> AuthVisible,
                    main |-> MainVisible, authenticated |-> isAuthenticated,
                    type |-> connectedWallet.type]
  /\ isAuthenticated' = FALSE
  /\ connectedWallet' = NoWallet
  /\ storage' = clearStoredConnection
  /\ events' = Append(events, DisconnectedEvent)
  /\ mainContent' = Hide(mainContent)
  /\ authScreen' = Hide(authScreen)
  /\ loadingScreen' = Element("flex", loadingScreen.classes \ {"fade-out"})
  /\ startLoadingSequence(timers, loadingDuration)
  /\ UNCHANGED <<now, pc, verifying, loadingDuration, solana, ethereum, solflare,
                 attempts, buttons, provCalls, logged, nClicks, nAuthShown>>
  /\ UNCHANGED <<loaded, silentAnswer, answer>>

(***************************************************************************)
(* Wallet adapters: connectPhantom, connectSolflare, connectMetaMask       *)
(* Error messages are sequences of words; String.includes is the test for  *)
(* a contiguous run of words.                                              *)
(***************************************************************************)
Includes(msg, needle) ==
  \E i \in 0..(Len(msg) - Len(needle)) : SubSeq(msg, i + 1, i + Len(needle)) = needle

ProviderName(w) ==
  CASE w = "phantom" -> "Phantom"
    [] w = "solflare" -> "Solflare"
    [] w = "metamask" -> "MetaMask"

NotDetectedMessage(w) ==
  <<ProviderName(w), "wallet", "not", "detected.", "Please", "ensure", "it", "is",
    "installed", "and", "enabled.">>

NoPublicKeyMessage(w) ==
  IF w = "metamask" THEN <<"No", "accounts", "found">>
  ELSE <<"Failed", "to", "get", "public", "key", "from", ProviderName(w)>>

RejectedByUserMessage == <<"Connection", "rejected", "by", "user">>
AlreadyPendingMessage == <<"Connection", "request", "already", "pending">>
ConnectionFailedMessage(inner) == <<"Connection", "failed:">> \o inner

\* the catch blocks of the three adapters: the message of the Error rethrown
\* mutant: only the code is looked at
PhantomCatch_CodeOnly(error) ==
  IF error.code = UserRejectedCode
    THEN <<"Connection", "rejected", "by", "user">>
    ELSE <<"Connection", "failed:">> \o error.message

PhantomCatch(error) ==
  IF error.code = UserRejectedCode \/ Includes(error.message, <<"User", "rejected">>)
    THEN RejectedByUserMessage
    ELSE ConnectionFailedMessage(error.message)

SolflareCatch(error) ==
  IF error.code = UserRejectedCode \/ Includes(error.message, <<"rejected">>)
    THEN RejectedByUserMessage
    ELSE ConnectionFailedMessage(error.message)

MetaMaskCatch(error) ==
  IF error.code = UserRejectedCode THEN RejectedByUserMessage
  ELSE IF error.code = AlreadyPendingCode THEN AlreadyPendingMessage
  ELSE ConnectionFailedMessage(error.message)

AdapterCatch(w, error) ==
  CASE w = "phantom" -> PhantomCatch(error)
    [] w = "solflare" -> SolflareCatch(error)
    [] w = "metamask" -> MetaMaskCatch(error)

\* the provider check at the head of each adapter fails
ProviderMissing(w) ==
  CASE w = "phantom" -> solana # "phantom"
    [] w = "solflare" -> ~solflare.present
    [] w = "metamask" -> ethereum # "metamask"

\* the first provider operation an adapter invokes, and the phase it awaits in
FirstOp(w) ==
  CASE w = "phantom" -> "solana.connect"
    [] w = "solflare" -> IF solflare.isConnected THEN "solflare.disconnect"
                                                ELSE "solflare.connect"
    [] w = "metamask" -> "ethereum.eth_requestAccounts"

FirstPhase(w) ==
  IF w = "solflare" /\ solflare.isConnected THEN "disconnecting" ELSE "connecting"

\* errors a provider rejects an interactive connect with
ProviderErrors ==
  { [code |-> UserRejectedCode,
     message |-> <<"User", "rejected", "the", "request.">>],
    [code |-> AlreadyPendingCode,
     message |-> <<"Request", "already", "pending">>],
    Error(<<"Wallet", "locked">>) }

ConnectKeys == {"K2"}

ConnectOutcomes(w) ==
  {Resolve(k, "response") : k \in ConnectKeys} \cup {Resolve(NoKey, "none")} \cup
  {Reject(e) : e \in ProviderErrors} \cup
  (IF w = "solflare"
     THEN {Resolve(k, via) : k \in ConnectKeys, via \in {"property", "nested"}}
     ELSE {})

\* window.solflare after its connect() has settled with out
SolflareAfterConnect(out) ==
  IF out.kind = "reject" THEN solflare
  ELSE CASE out.via = "response" ->
              [solflare EXCEPT !.isConnected = TRUE, !.publicKey = out.key,
                               !.walletKey = NoKey]
         [] out.via = "property" ->
              [solflare EXCEPT !.isConnected = TRUE, !.publicKey = out.key,
                               !.walletKey = NoKey]
         [] out.via = "nested" ->
              [solflare EXCEPT !.isConnected = TRUE, !.publicKey = NoKey,
                               !.walletKey = out.key]
         [] out.via = "none" ->
              [solflare EXCEPT !.isConnected = FALSE, !.publicKey = NoKey,
                               !.walletKey = NoKey]

\* connectSolflare's lookup of the public key: response, then the provider's
\* property, then its nested wallet object
SolflarePublicKey(out, provider) ==
  IF out.via = "response" /\ out.key # NoKey THEN out.key
  ELSE IF provider.publicKey # NoKey THEN provider.publicKey
  ELSE provider.walletKey

\* the key an adapter extracts from a resolved connect
ExtractedKey(w, out, provider) ==
  IF w = "solflare" THEN SolflarePublicKey(out, provider)
  ELSE IF out.via = "response" THEN out.key
  ELSE NoKey

\* result of an adapter whose provider call settled with out: the wallet it
\* returns, or the message of the Error it throws
AdapterResult(w, out, provider) ==
  IF out.kind = "reject"
    THEN [ok |-> FALSE, wallet |-> NoWallet, message |-> AdapterCatch(w, out.error)]
  ELSE IF ExtractedKey(w, out, provider) # NoKey
    THEN [ok |-> TRUE, wallet |-> Wallet(w, ExtractedKey(w, out, provider)),
          message |-> <<>>]
  ELSE [ok |-> FALSE, wallet |-> NoWallet,
        message |-> AdapterCatch(w, Error(NoPublicKeyMessage(w)))]

(***************************************************************************)
(* connectWallet                                                           *)
(***************************************************************************)
\* mutant: an existing record is not overwritten
storeWalletConnection_KeepsExisting(wallet, t) ==
  IF storage.kind = "object" THEN storage
  ELSE Record(wallet.type, t, wallet.publicKey, wallet.address)

storeWalletConnection(wallet, t) ==
  Record(wallet.type, t, wallet.publicKey, wallet.address)

\* mutant: the labels to restore are read when the error is shown
FailAttempt_LateCapture(w, name, connect, message) ==
  /\ buttons' = [buttons EXCEPT ![w] =
                   [walletName |-> "CONNECTION FAILED", connectText |-> "ERROR",
                    disabled |-> TRUE, pointerEvents |-> "none"]]
  /\ timers' = Append(timers, ResetTimer(now + ErrorResetDelay, w,
                                         buttons[w].walletName,
                                         buttons[w].connectText))
  /\ logged' = [logged EXCEPT ![w] = message]

\* connectWallet's catch block for wallet w
FailAttempt(w, name, connect, message) ==
  /\ buttons' = [buttons EXCEPT ![w] =
                   [walletName |-> "CONNECTION FAILED", connectText |-> "ERROR",
                    disabled |-> TRUE, pointerEvents |-> "none"]]
  /\ timers' = Append(timers, ResetTimer(now + ErrorResetDelay, w, name, connect))
  /\ logged' = [logged EXCEPT ![w] = message]

\* mutant: the loading labels are set and the control is left enabled
BusyButton_LeftEnabled ==
  [walletName |-> "CONNECTING...", connectText |-> "WAIT...",
   disabled |-> FALSE, pointerEvents |-> ""]

\* connectWallet's loading state of the control
BusyButton ==
  [walletName |-> "CONNECTING...", connectText |-> "WAIT...",
   disabled |-> TRUE, pointerEvents |-> "none"]

\* a click on the control of wallet w: connectWallet(w) up to the adapter's
\* first await of the provider, or to the end when the adapter throws at once
Click(w) ==
  /\ pc = "ready"
  /\ AuthVisible
  /\ ~buttons[w].disabled
  /\ buttons[w].pointerEvents # "none"
  /\ nReauth + nClicks < MaxOps
  /\ nClicks' = nClicks + 1
  /\ IF ProviderMissing(w)
       THEN /\ FailAttempt(w, buttons[w].walletName, buttons[w].connectText,
                           AdapterCatch(w, Error(NotDetectedMessage(w))))
            /\ UNCHANGED <<attempts, provCalls>>
       ELSE /\ buttons' = [buttons EXCEPT ![w] = BusyButton]
            /\ attempts' = [attempts EXCEPT ![w] =
                              [phase |-> FirstPhase(w),
                               originalName |-> buttons[w].walletName,
                               originalConnect |-> buttons[w].connectText]]
            /\ provCalls' = Called(FirstOp(w))
            /\ UNCHANGED <<timers, logged>>
  /\ UNCHANGED <<now, pc, verifying, loadingDuration, isAuthenticated,
                 connectedWallet, storage, solana, ethereum, solflare,
                 loadingScreen, authScreen, mainContent, progressBar,
                 loadingPercentage, events, nReauth, nLoadingStarts, nAuthShown>>
  /\ UNCHANGED <<loaded, silentAnswer, answer, reauthFrom>>

\* window.solflare.disconnect() settles (its rejection is caught and logged);
\* connectSolflare goes on to window.solflare.connect()
SolflareDisconnected(resolved) ==
  /\ attempts["solflare"].phase = "disconnecting"
  /\ solflare' = IF resolved
                   THEN [solflare EXCEPT !.isConnected = FALSE, !.publicKey = NoKey,
                                         !.walletKey = NoKey]
                   ELSE solflare
  /\ attempts' = [attempts EXCEPT !["solflare"].phase = "connecting"]
  /\ provCalls' = Called("solflare.connect")
  /\ UNCHANGED <<now, pc, verifying, loadingDuration, isAuthenticated,
                 connectedWallet, storage, solana, ethereum, timers,
                 loadingScreen, authScreen, mainContent, progressBar,
                 loadingPercentage, buttons, events, logged, nReauth, nClicks,
                 nLoadingStarts, nAuthShown>>
  /\ UNCHANGED <<loaded, silentAnswer, answer, reauthFrom>>

\* the provider's interactive connect settles with out: the adapter returns
\* or throws and connectWallet runs to its end
ConnectSettle(w, out) ==
  /\ attempts[w].phase = "connecting"
  /\ attempts' = [attempts EXCEPT ![w] = NoAttempt]
  /\ answer' = [answer EXCEPT ![w] = out]
  /\ solflare' = IF w = "solflare" THEN SolflareAfterConnect(out) ELSE solflare
  /\ LET result == AdapterResult(w, out, solflare') IN
     IF result.ok
       THEN /\ connectedWallet' = result.wallet
            /\ isAuthenticated' = TRUE
            /\ storage' = storeWalletConnection(result.wallet, now)
            /\ buttons' = [buttons EXCEPT ![w] =
                             [walletName |-> "CONNECTED", connectText |-> "SUCCESS",
                              disabled |-> TRUE, pointerEvents |-> "none"]]
            /\ events' = Append(events, ConnectedEvent(result.wallet))
            /\ timers' = Append(timers, Timer("transitionToMainContent",
                                              now + SuccessDelay))
            /\ UNCHANGED logged
       ELSE /\ FailAttempt(w, attempts[w].originalName, attempts[w].originalConnect,
                           result.message)
            /\ UNCHANGED <<connectedWallet, isAuthenticated, storage, events>>
  /\ UNCHANGED <<now, pc, verifying, loadingDuration, solana, ethereum,
                 loadingScreen, authScreen, mainContent, progressBar,
                 loadingPercentage, provCalls, nReauth, nClicks, nLoadingStarts,
                 nAuthShown>>
  /\ UNCHANGED <<loaded, silentAnswer, reauthFrom>>

(***************************************************************************)
(* Specification                                                           *)
(***************************************************************************)
Next ==
  \/ \E opt \in LoadingDurationOptions : Construct(opt) /\ GateStep
  \/ \E out \in SilentOutcomes : SilentSettle(out) /\ GateStep
  \/ Advance /\ GateStep
  \/ UpdateProgressTimer /\ GateStep
  \/ TransitionToAuth /\ GateStep
  \/ ShowAuth /\ GateStep
  \/ TransitionToMainContent /\ GateStep
  \/ ShowMain /\ GateStep
  \/ ResetButton /\ GateStep
  \/ ForceReauth /\ GateStep
  \/ \E w \in WalletTypes : Click(w) /\ GateStep
  \/ \E resolved \in BOOLEAN : SolflareDisconnected(resolved) /\ GateStep
  \/ \E w \in WalletTypes : \E out \in ConnectOutcomes(w) :
       ConnectSettle(w, out) /\ GateStep

Spec == Init /\ [][Next]_vars

(***************************************************************************)
(* One authentication cycle without forceReauth, over the whole range of   *)
(* stored values, provider objects and provider answers                    *)
(***************************************************************************)
UnknownWalletType == "ledger"

SessionStoredValues ==
  {Absent} \cup
  {Record(w, PageLoadTime - 1000, "K1", "K1") : w \in WalletTypes} \cup
  { Record("phantom", PageLoadTime - (SessionLifetime + 1), "K1", "K1"),
    Record("phantom", PageLoadTime - SessionLifetime, "K1", "K1"),
    Record("phantom", PageLoadTime + 1000, "K1", "K1"),
    Record(UnknownWalletType, PageLoadTime - 1000, "K1", "K1"),
    RecordNoTimestamp("phantom", "K1", "K1"),
    Malformed("text"), Malformed("null"), Malformed("scalar") }

\* Phantom and MetaMask installed; objects at window.solana, window.ethereum
\* and window.solflare that do not identify as the expected wallets; no
\* provider at all; only a Solflare that is not connected
SessionEnvironments ==
  { [solana |-> "phantom", ethereum |-> "metamask", solflare |-> SolflareAbsent],
    [solana |-> "other", ethereum |-> "other",
     solflare |-> SolflareUnidentified(TRUE, "K1", NoKey)],
    [solana |-> "absent", ethereum |-> "absent", solflare |-> SolflareAbsent],
    [solana |-> "absent", ethereum |-> "absent",
     solflare |-> SolflareState(FALSE, NoKey, NoKey)] }

SessionInit == InitWith(SessionStoredValues, SessionEnvironments)

\* errors a provider rejects with: those of ProviderErrors, a rejection told
\* by its message only and one told by its code only
SessionErrors ==
  ProviderErrors \cup
  { Error(<<"User", "rejected", "the", "request.">>),
    [code |-> UserRejectedCode, message |-> <<"Denied">>] }

\* answers to an interactive connect: a key in the response, no key at all,
\* no key in the response while the provider object exposes one (publicKey,
\* selectedAddress; for Solflare also wallet.publicKey), or a rejection
SessionOutcomes(w) ==
  {Resolve(k, "response") : k \in ConnectKeys} \cup {Resolve(NoKey, "none")} \cup
  {Resolve(k, "property") : k \in ConnectKeys} \cup
  {Reject(e) : e \in SessionErrors} \cup
  (IF w = "solflare" THEN {Resolve(k, "nested") : k \in ConnectKeys} ELSE {})

SessionNext ==
  \/ \E opt \in LoadingDurationOptions : Construct(opt) /\ GateStep
  \/ \E out \in SilentOutcomes : SilentSettle(out) /\ GateStep
  \/ Advance /\ GateStep
  \/ UpdateProgressTimer /\ GateStep
  \/ TransitionToAuth /\ GateStep
  \/ ShowAuth /\ GateStep
  \/ TransitionToMainContent /\ GateStep
  \/ ShowMain /\ GateStep
  \/ ResetButton /\ GateStep
  \/ \E w \in WalletTypes : Click(w) /\ GateStep
  \/ \E resolved \in BOOLEAN : SolflareDisconnected(resolved) /\ GateStep
  \/ \E w \in WalletTypes : \E out \in SessionOutcomes(w) :
       ConnectSettle(w, out) /\ GateStep

SessionSpec == SessionInit /\ [][SessionNext]_vars

(***************************************************************************)
(* Wallet detection: setupWalletDetection, detectWallets and               *)
(* manualDetectWallets, on the page as initWalletAuth starts it.  The      *)
(* callbacks of detection are kept in detection.timers, apart from the     *)
(* callbacks of the gate; time advances to the next due time of either.    *)
(***************************************************************************)
\* runs of checkSolanaProvider that find no provider, and calls of
\* manualDetectWallets, followed in one run
MaxPolls == 4
MaxManual == 1

EthereumCheckDelay == 3000
SolanaPollInterval == 1000
LoadDetectDelay == 2000

DetectionTimer(kind, due) == [kind |-> kind, due |-> due]

\* detectWallets() with window.solana s, window.ethereum e and
\* window.solflare f: the three lines it logs
detectWallets(d, s, e, f) ==
  [d EXCEPT !.runs = @ + 1,
            !.seen = [phantom |-> s = "phantom", metamask |-> e = "metamask",
                      solflare |-> f.present]]

\* setupWalletDetection() at the end of init()
setupWalletDetection(d) ==
  LET d1 == IF ethereum # "absent"
              THEN detectWallets(d, solana, ethereum, solflare)
              ELSE [d EXCEPT !.ethereumListener = TRUE,
                             !.timers = Append(@, DetectionTimer("ethereumCheck",
                                                    now + EthereumCheckDelay))]
      d2 == IF solana # "absent"
              THEN detectWallets(d1, solana, ethereum, solflare)
              ELSE [d1 EXCEPT !.phantomListener = TRUE,
                              !.timers = Append(@, DetectionTimer("checkSolanaProvider",
                                                     now + SolanaPollInterval))]
  IN [d2 EXCEPT !.loadListener = TRUE]

\* initWalletAuth(): new WalletAuthController() without options; init() runs
\* up to its first await of a provider, or to its end
initWalletAuth ==
  /\ Construct(0)
  /\ detection' = IF pc' = "ready" THEN setupWalletDetection(detection) ELSE detection
  /\ PageStep

\* the silent call settles and init() runs to its end
InitSettle(out) ==
  /\ SilentSettle(out)
  /\ detection' = setupWalletDetection(detection)
  /\ PageStep

DueTimes ==
  {timers[i].due : i \in DOMAIN timers} \cup
  {detection.timers[i].due : i \in DOMAIN detection.timers}

\* no callback of the gate or of detection is due: time passes until the
\* next one is
AdvanceAll ==
  /\ DueTimes # {}
  /\ \A d \in DueTimes : d > now
  /\ now' = CHOOSE d \in DueTimes : \A e \in DueTimes : d <= e
  /\ UNCHANGED <<pc, verifying, loadingDuration, isAuthenticated, connectedWallet,
                 storage, solana, ethereum, solflare, attempts, timers,
                 loadingScreen, authScreen, mainContent, progressBar,
                 loadingPercentage, buttons, events, provCalls, logged, nReauth,
                 nClicks, nLoadingStarts, nAuthShown>>
  /\ UNCHANGED <<loaded, silentAnswer, answer, reauthFrom, detection>>
  /\ PageStep

DetectionReady(i, kind) ==
  /\ detection.timers[i].kind = kind
  /\ detection.timers[i].due <= now

\* the 3000 ms callback of the ethereum branch
EthereumCheck ==
  /\ \E i \in DOMAIN detection.timers :
       /\ DetectionReady(i, "ethereumCheck")
       /\ LET d == [detection EXCEPT !.timers = Remove(@, i)] IN
          detection' = IF ethereum # "absent"
                         THEN detectWallets(d, solana, ethereum, solflare)
                         ELSE d
  /\ UNCHANGED <<gateVars, proxy, visits, debounced>>

\* mutant: the callback reschedules itself whether or not window.solana is set
checkSolanaProvider_KeepsPolling ==
  /\ detection.polls < MaxPolls
  /\ \E i \in DOMAIN detection.timers :
       /\ DetectionReady(i, "checkSolanaProvider")
       /\ detection' = [detection EXCEPT !.polls = @ + 1,
                           !.timers = Append(Remove(@, i),
                                             DetectionTimer("checkSolanaProvider",
                                                            now + SolanaPollInterval))]
  /\ UNCHANGED <<gateVars, proxy, visits, debounced>>

\* the polling callback of the solana branch: it reschedules itself every
\* 1000 ms until window.solana is set
checkSolanaProvider ==
  /\ solana # "absent" \/ detection.polls < MaxPolls
  /\ \E i \in DOMAIN detection.timers :
       /\ DetectionReady(i, "checkSolanaProvider")
       /\ LET d == [detection EXCEPT !.timers = Remove(@, i)] IN
          detection' = IF solana # "absent"
                         THEN detectWallets(d, solana, ethereum, solflare)
                         ELSE [d EXCEPT !.polls = @ + 1,
                                        !.timers = Append(@,
                                           DetectionTimer("checkSolanaProvider",
                                                          now + SolanaPollInterval))]
  /\ UNCHANGED <<gateVars, proxy, visits, debounced>>

\* the window's load event, before init() or right after it: the listener
\* schedules a detection 2000 ms later
WindowLoad ==
  /\ ~detection.pageLoaded
  /\ now = PageLoadTime
  /\ detection' = [detection EXCEPT
                     !.pageLoaded = TRUE,
                     !.timers = IF detection.loadListener
                                  THEN Append(@, DetectionTimer("loadDetect",
                                                                now + LoadDetectDelay))
                                  ELSE @]
  /\ UNCHANGED <<gateVars, proxy, visits, debounced>>

\* the callback the load listener scheduled
LoadDetect ==
  /\ \E i \in DOMAIN detection.timers :
       /\ DetectionReady(i, "loadDetect")
       /\ detection' = detectWallets([detection EXCEPT !.timers = Remove(@, i)],
                                     solana, ethereum, solflare)
  /\ UNCHANGED <<gateVars, proxy, visits, debounced>>

\* mutant: a detected wallet is taken as connected
manualDetectWallets_Authenticates ==
  /\ pc = "ready"
  /\ detection.manual < MaxManual
  /\ detection' = detectWallets([detection EXCEPT !.manual = @ + 1],
                                solana, ethereum, solflare)
  /\ isAuthenticated' = (solana = "phantom")
  /\ UNCHANGED <<now, pc, verifying, loadingDuration, connectedWallet,
                 storage, solana, ethereum, solflare, attempts, timers,
                 loadingScreen, authScreen, mainContent, progressBar,
                 loadingPercentage, buttons, events, provCalls, logged, nReauth,
                 nClicks, nLoadingStarts, nAuthShown>>
  /\ UNCHANGED <<loaded, silentAnswer, answer, reauthFrom>>
  /\ PageStep

\* walletAuth.manualDetectWallets(), once init() has completed
manualDetectWallets ==
  /\ pc = "ready"
  /\ detection.manual < MaxManual
  /\ detection' = detectWallets([detection EXCEPT !.manual = @ + 1],
                                solana, ethereum, solflare)
  /\ UNCHANGED <<gateVars, proxy, visits, debounced>>

\* an extension sets window.ethereum to e; when it announces itself with the
\* 'ethereum#initialized' event the listener runs
EthereumInjected(e, announced) ==
  /\ ethereum = "absent"
  /\ ethereum' = e
  /\ detection' = IF announced /\ detection.ethereumListener
                    THEN detectWallets(detection, solana, e, solflare)
                    ELSE detection
  /\ UNCHANGED <<now, pc, verifying, loadingDuration, isAuthenticated,
                 connectedWallet, storage, solana, solflare, attempts, timers,
                 loadingScreen, authScreen, mainContent, progressBar,
                 loadingPercentage, buttons, events, provCalls, logged, nReauth,
                 nClicks, nLoadingStarts, nAuthShown>>
  /\ UNCHANGED <<loaded, silentAnswer, answer, reauthFrom>>
  /\ PageStep

\* an extension sets window.solana to s; when it announces itself with the
\* 'phantom#initialized' event the listener runs
SolanaInjected(s, announced) ==
  /\ solana = "absent"
  /\ solana' = s
  /\ detection' = IF announced /\ detection.phantomListener
                    THEN detectWallets(detection, s, ethereum, solflare)
                    ELSE detection
  /\ UNCHANGED <<now, pc, verifying, loadingDuration, isAuthenticated,
                 connectedWallet, storage, ethereum, solflare, attempts, timers,
                 loadingScreen, authScreen, mainContent, progressBar,
                 loadingPercentage, buttons, events, provCalls, logged, nReauth,
                 nClicks, nLoadingStarts, nAuthShown>>
  /\ UNCHANGED <<loaded, silentAnswer, answer, reauthFrom>>
  /\ PageStep

DetectionStoredValues ==
  { Absent,
    Record("phantom", PageLoadTime - (SessionLifetime + 1), "K1", "K1"),
    Record("phantom", PageLoadTime - 1000, "K1", "K1") }

\* no provider injected yet; Phantom and MetaMask injected; only a Solflare
DetectionEnvironments ==
  { [solana |-> "absent", ethereum |-> "absent", solflare |-> SolflareAbsent],
    [solana |-> "phantom", ethereum |-> "metamask", solflare |-> SolflareAbsent],
    [solana |-> "absent", ethereum |-> "absent",
     solflare |-> SolflareState(FALSE, NoKey, NoKey)] }

DetectionInit == InitWith(DetectionStoredValues, DetectionEnvironments)

DetectionNext ==
  \/ initWalletAuth
  \/ \E out \in SilentOutcomes : InitSettle(out)
  \/ AdvanceAll
  \/ UpdateProgressTimer /\ GateStep
  \/ TransitionToAuth /\ GateStep
  \/ ShowAuth /\ GateStep
  \/ EthereumCheck
  \/ checkSolanaProvider
  \/ WindowLoad
  \/ LoadDetect
  \/ manualDetectWallets
  \/ \E a \in BOOLEAN : EthereumInjected("metamask", a)
  \/ \E a \in BOOLEAN : SolanaInjected("phantom", a)

\* the event loop runs every callback that is due, and time passes
DetectionFairness ==
  /\ WF_vars(AdvanceAll)
  /\ WF_vars(UpdateProgressTimer /\ GateStep)
  /\ WF_vars(TransitionToAuth /\ GateStep)
  /\ WF_vars(ShowAuth /\ GateStep)
  /\ WF_vars(EthereumCheck)
  /\ WF_vars(checkSolanaProvider)
  /\ WF_vars(LoadDetect)

DetectionSpec == DetectionInit /\ [][DetectionNext]_vars /\ DetectionFairness

(***************************************************************************)
(* Wallet detection across forceReauth cycles                              *)
(***************************************************************************)
\* nothing stored; no provider injected yet, or Phantom already injected
PollEnvironments ==
  { [solana |-> "absent", ethereum |-> "absent", solflare |-> SolflareAbsent],
    [solana |-> "phantom", ethereum |-> "absent", solflare |-> SolflareAbsent] }

PollInit == InitWith({Absent}, PollEnvironments)

\* new WalletAuthController(options) with a loadingDuration option: init()
\* finds nothing stored and runs to its end, setupWalletDetection included
PollConstruct(opt) ==
  /\ Construct(opt)
  /\ detection' = IF pc' = "ready" THEN setupWalletDetection(detection) ELSE detection
  /\ PageStep

PollNext ==
  \/ \E opt \in LoadingDurationOptions : PollConstruct(opt)
  \/ AdvanceAll
  \/ UpdateProgressTimer /\ GateStep
  \/ TransitionToAuth /\ GateStep
  \/ ShowAuth /\ GateStep
  \/ ForceReauth /\ GateStep
  \/ EthereumCheck
  \/ checkSolanaProvider
  \/ WindowLoad
  \/ LoadDetect
  \/ \E a \in BOOLEAN : SolanaInjected("phantom", a)

PollSpec == PollInit /\ [][PollNext]_vars

(***************************************************************************)
(* The controller variant of unnamed/part_000: no silent resume and no     *)
(* persistence.  Its startLoadingSequence, transitionToAuth up to its      *)
(* callback, connectWallet up to the adapter's answer, its adapters and    *)
(* its catch block are the text of wallet-auth.js, so the definitions      *)
(* above stand for them; the handlers that differ follow.                  *)
(***************************************************************************)
VariantDefaultLoadingDuration == 10000

\* mutant: startup as in wallet-auth.js
VariantConstruct_AsWalletAuth(opt) == Construct(opt)

\* new WalletAuthController(options): init() is synchronous and starts the
\* loading sequence
VariantConstruct(opt) ==
  /\ pc = "start"
  /\ pc' = "ready"
  /\ loadingDuration' = IF opt = 0 THEN VariantDefaultLoadingDuration ELSE opt
  /\ startLoadingSequence(timers, loadingDuration')
  /\ UNCHANGED <<now, verifying, isAuthenticated, connectedWallet, storage,
                 solana, ethereum, solflare, attempts, loadingScreen, authScreen,
                 mainContent, buttons, events, provCalls, logged, nReauth, nClicks,
                 nAuthShown>>
  /\ UNCHANGED <<loaded, silentAnswer, answer, reauthFrom>>

\* the callback transitionToAuth scheduled: the inline display of the auth
\* screen is not written
VariantShowAuth ==
  /\ TimerReady("showAuth")
  /\ loadingScreen' = Element("none", loadingScreen.classes)
  /\ authScreen' = Element(authScreen.display, authScreen.classes \ {"hidden"})
  /\ nAuthShown' = nAuthShown + 1
  /\ timers' = Remove(timers, NextTimer)
  /\ UNCHANGED <<now, pc, verifying, loadingDuration, isAuthenticated,
                 connectedWallet, storage, solana, ethereum, solflare, attempts,
                 mainContent, progressBar, loadingPercentage, buttons, events,
                 provCalls, logged, nReauth, nClicks, nLoadingStarts>>
  /\ UNCHANGED <<loaded, silentAnswer, answer, reauthFrom>>

\* the callback transitionToMainContent scheduled
VariantShowMain ==
  /\ TimerReady("showMain")
  /\ authScreen' = Element("none", authScreen.classes)
  /\ mainContent' = Element(mainContent.display, mainContent.classes \ {"hidden"})
  /\ timers' = Remove(timers, NextTimer)
  /\ UNCHANGED <<now, pc, verifying, loadingDuration, isAuthenticated,
                 connectedWallet, storage, solana, ethereum, solflare, attempts,
                 loadingScreen, progressBar, loadingPercentage, buttons, events,
                 provCalls, logged, nReauth, nClicks, nLoadingStarts, nAuthShown>>
  /\ UNCHANGED <<loaded, silentAnswer, answer, reauthFrom>>

\* forceReauth(): no storage access, no event, classes only
VariantForceReauth ==
  /\ pc # "start"
  /\ nReauth + nClicks < MaxOps
  /\ nReauth' = nReauth + 1
  /\ reauthFrom' = [called |-> TRUE, loading |-> LoadingVisible, auth |-> AuthVisible,
                    main |-> MainVisible, authenticated |-> isAuthenticated,
                    type |-> connectedWallet.type]
  /\ isAuthenticated' = FALSE
  /\ connectedWallet' = NoWallet
  /\ mainContent' = Element(mainContent.display, mainContent.classes \cup {"hidden"})
  /\ authScreen' = Element(authScreen.display, authScreen.classes \cup {"hidden"})
  /\ loadingScreen' = Element("flex", loadingScreen.classes \ {"fade-out"})
  /\ startLoadingSequence(timers, loadingDuration)
  /\ UNCHANGED <<now, pc, verifying, loadingDuration, storage, solana, ethereum,
                 solflare, attempts, buttons, events, provCalls, logged, nClicks,
                 nAuthShown>>
  /\ UNCHANGED <<loaded, silentAnswer, answer>>

\* the provider's interactive connect settles with out: connectWallet runs to
\* its end; nothing is stored
VariantConnectSettle(w, out) ==
  /\ attempts[w].phase = "connecting"
  /\ attempts' = [attempts EXCEPT ![w] = NoAttempt]
  /\ answer' = [answer EXCEPT ![w] = out]
  /\ solflare' = IF w = "solflare" THEN SolflareAfterConnect(out) ELSE solflare
  /\ LET result == AdapterResult(w, out, solflare') IN
     IF result.ok
       THEN /\ connectedWallet' = result.wallet
            /\ isAuthenticated' = TRUE
            /\ buttons' = [buttons EXCEPT ![w] =
                             [walletName |-> "CONNECTED", connectText |-> "SUCCESS",
                              disabled |-> TRUE, pointerEvents |-> "none"]]
            /\ events' = Append(events, ConnectedEvent(result.wallet))
            /\ timers' = Append(timers, Timer("transitionToMainContent",
                                              now + SuccessDelay))
            /\ UNCHANGED logged
       ELSE /\ FailAttempt(w, attempts[w].originalName, attempts[w].originalConnect,
                           result.message)
            /\ UNCHANGED <<connectedWallet, isAuthenticated, events>>
  /\ UNCHANGED <<now, pc, verifying, loadingDuration, storage, solana, ethereum,
                 loadingScreen, authScreen, mainContent, progressBar,
                 loadingPercentage, provCalls, nReauth, nClicks, nLoadingStarts,
                 nAuthShown>>
  /\ UNCHANGED <<loaded, silentAnswer, reauthFrom>>

\* nothing stored, or the unexpired record of a Solflare session
VariantStoredValues == {Absent, Record("solflare", PageLoadTime - 1000, "K1", "K1")}

VariantInit == InitWith(VariantStoredValues, Environments)

VariantNext ==
  \/ \E opt \in LoadingDurationOptions : VariantConstruct(opt) /\ GateStep
  \/ Advance /\ GateStep
  \/ UpdateProgressTimer /\ GateStep
  \/ TransitionToAuth /\ GateStep
  \/ VariantShowAuth /\ GateStep
  \/ TransitionToMainContent /\ GateStep
  \/ VariantShowMain /\ GateStep
  \/ ResetButton /\ GateStep
  \/ VariantForceReauth /\ GateStep
  \/ \E w \in WalletTypes : Click(w) /\ GateStep
  \/ \E resolved \in BOOLEAN : SolflareDisconnected(resolved) /\ GateStep
  \/ \E w \in WalletTypes : \E out \in ConnectOutcomes(w) :
       VariantConnectSettle(w, out) /\ GateStep

VariantSpec == VariantInit /\ [][VariantNext]_vars

(***************************************************************************)
(* The secure proxy of pump-proxy-secure.js: the handler of one            *)
(* GET /api/pump/tokens request.  The handler runs on the proxy server,    *)
(* apart from the page.                                                    *)
(***************************************************************************)
ALLOWED_ENDPOINTS ==
  <<"frontend-api.pump.fun/coins/trending", "frontend-api.pump.fun/coins">>

GraduationProgress == 85
MaxTokens == 50
MaxProgress == 100

\* a token as the upstream reports it
UpstreamToken(mint, complete, graduated, progress) ==
  [mint |-> mint, complete |-> complete, graduated |-> graduated,
   progress |-> progress]

\* the filter callback
Relevant(token) ==
  token.complete \/ token.graduated \/ token.progress >= GraduationProgress

\* the map callback: the fields kept of a token
Sanitize(token) ==
  [mint |-> token.mint,
   status |-> IF token.complete \/ token.graduated THEN "graduated" ELSE "bonding",
   bonding_curve_progress |-> Min(token.progress, MaxProgress)]

\* mutant: the result is not cut to 50 tokens
RelevantTokens_Unlimited(tokens) ==
  LET kept == SelectSeq(tokens, Relevant)
  IN [i \in 1..Len(kept) |-> Sanitize(kept[i])]

\* filteredTokens.filter(...).map(...).slice(0, 50)
RelevantTokens(tokens) ==
  LET kept == SelectSeq(tokens, Relevant)
      mapped == [i \in 1..Len(kept) |-> Sanitize(kept[i])]
  IN SubSeq(mapped, 1, Min(Len(mapped), MaxTokens))

\* what response.json() settles with: kind "array" is an array of tokens,
\* "coins" and "data" an object holding the array in that property, "empty"
\* a value without a coins or data property, "null" the JSON value null,
\* "notArray" an object whose coins or data is not an array, "nullElement" an
\* array with a null element, "unparsable" a rejection of json()
Body(kind, tokens) == [kind |-> kind, tokens |-> tokens]

\* Array.isArray(data) ? data : (data.coins || data.data || [])
FilteredTokens(body) ==
  IF body.kind \in {"array", "coins", "data"} THEN body.tokens ELSE <<>>

\* json(), the read of data.coins, the format check or the filter callback
\* throws
BodyThrows(body) == body.kind \in {"null", "notArray", "nullElement", "unparsable"}

SuccessEnvelope(i, tokens) ==
  [status |-> 200, success |-> TRUE, source |-> ALLOWED_ENDPOINTS[i],
   count |-> Len(tokens), tokens |-> tokens, timestamp |-> TRUE]

FailureEnvelope ==
  [status |-> 502, success |-> FALSE, source |-> "", count |-> 0,
   tokens |-> <<>>, timestamp |-> TRUE]

\* one turn of the for loop up to the await of fetch: the abort timer of the
\* turn's controller is set
TryEndpoint(p, i) ==
  [p EXCEPT !.pc = "fetching", !.endpoint = i, !.aborts = @ \cup {i},
            !.contacted = Append(@, i)]

\* the turn ends without a response sent: the next endpoint, or the 502
\* envelope after the last
SkipEndpoint(p, outcome) ==
  LET q == [p EXCEPT !.outcomes = Append(@, outcome)] IN
  IF p.endpoint < Len(ALLOWED_ENDPOINTS)
    THEN TryEndpoint(q, p.endpoint + 1)
    ELSE [q EXCEPT !.pc = "done", !.answers = Append(@, FailureEnvelope)]

\* a request arrives
ProxyRequest ==
  /\ proxy.pc = "idle"
  /\ proxy' = TryEndpoint(proxy, 1)
  /\ UNCHANGED <<gateVars, detection, visits, debounced>>

\* fetch rejects (network error); the abort timer of the turn stays pending
FetchRejects ==
  /\ proxy.pc = "fetching"
  /\ proxy' = SkipEndpoint(proxy, "rejected")
  /\ UNCHANGED <<gateVars, detection, visits, debounced>>

\* the 10 s abort timer of turn i fires: a fetch still pending rejects
AbortTimeout(i) ==
  /\ i \in proxy.aborts
  /\ LET p == [proxy EXCEPT !.aborts = @ \ {i}] IN
     proxy' = IF p.pc = "fetching" /\ p.endpoint = i
                THEN SkipEndpoint(p, "aborted")
                ELSE p
  /\ UNCHANGED <<gateVars, detection, visits, debounced>>

\* fetch resolves with the response headers: clearTimeout, then the test of
\* response.ok
FetchResponds(ok) ==
  /\ proxy.pc = "fetching"
  /\ LET p == [proxy EXCEPT !.aborts = @ \ {proxy.endpoint}] IN
     proxy' = IF ok THEN [p EXCEPT !.pc = "reading"]
                    ELSE SkipEndpoint(p, "notOk")
  /\ UNCHANGED <<gateVars, detection, visits, debounced>>

\* response.json() settles with body
BodySettles(body) ==
  /\ proxy.pc = "reading"
  /\ proxy' = IF BodyThrows(body)
                THEN SkipEndpoint(proxy, body.kind)
                ELSE [proxy EXCEPT
                        !.pc = "done",
                        !.outcomes = Append(@, "ok"),
                        !.answers = Append(@,
                           SuccessEnvelope(proxy.endpoint,
                                           RelevantTokens(FilteredTokens(body))))]
  /\ UNCHANGED <<gateVars, detection, visits, debounced>>

\* more relevant tokens than the proxy returns: of 60 tokens every fifth is
\* complete, every seventh graduated, and the progress runs from 80 to 109
LongTokenList ==
  [i \in 1..(MaxTokens + 10) |->
     UpstreamToken(100 + i, i % 5 = 0, i % 7 = 0, 80 + (i % 30))]

\* token lists of an upstream: all four cases of the filter in one list, a
\* graduated token behind a bonding one, a single relevant token, no relevant
\* token, none at all, and a list longer than the limit
UpstreamTokenLists ==
  { << UpstreamToken(1, TRUE, FALSE, 100),
       UpstreamToken(2, FALSE, FALSE, 84),
       UpstreamToken(3, FALSE, FALSE, 85),
       UpstreamToken(4, FALSE, TRUE, 120) >>,
    << UpstreamToken(3, FALSE, FALSE, 85),
       UpstreamToken(4, FALSE, TRUE, 120) >>,
    << UpstreamToken(1, TRUE, FALSE, 100) >>,
    << UpstreamToken(2, FALSE, FALSE, 84) >>,
    << >>,
    LongTokenList }

UpstreamBodies ==
  {Body(k, ts) : k \in {"array", "coins", "data"}, ts \in UpstreamTokenLists} \cup
  {Body(k, <<>>) : k \in {"empty", "null", "notArray", "nullElement", "unparsable"}}

ProxyInit ==
  InitWith({Absent},
           {[solana |-> "absent", ethereum |-> "absent", solflare |-> SolflareAbsent]})

ProxyNext ==
  \/ ProxyRequest
  \/ FetchRejects
  \/ \E i \in DOMAIN ALLOWED_ENDPOINTS : AbortTimeout(i)
  \/ \E ok \in BOOLEAN : FetchResponds(ok)
  \/ \E body \in UpstreamBodies : BodySettles(body)

\* Node's timers: an abort timer that is pending fires
ProxyFairness == WF_vars(\E i \in DOMAIN ALLOWED_ENDPOINTS : AbortTimeout(i))

ProxySpec == ProxyInit /\ [][ProxyNext]_vars /\ ProxyFairness

(***************************************************************************)
(* Repeated visits: the page is loaded again in the same browser profile.  *)
(* localStorage and the wallet extensions outlive a page; the controller,  *)
(* its pending callbacks and the document do not.                          *)
(***************************************************************************)
\* page loads in one run
MaxLoads == 4

\* time between one page load and the next
VisitGaps == {SessionLifetime \div 3}

\* init() has ended in skipToMainContent: one more resume of the stored record
Resumed(v) ==
  IF pc' = "ready" /\ isAuthenticated' THEN [v EXCEPT !.resumes = @ + 1] ELSE v

\* connectWallet has stored a record: the record's time of connection
Connected(v) ==
  IF storage' # storage THEN [v EXCEPT !.connectedAt = now, !.resumes = 0] ELSE v

\* the page, with no callback pending and no attempt in flight, is left and
\* loaded again gap ms later: a new document, and initWalletAuth about to
\* construct a new controller
Reload(gap) ==
  /\ pc = "ready"
  /\ timers = <<>>
  /\ \A w \in WalletTypes : attempts[w].phase = "idle"
  /\ visits.loads < MaxLoads
  /\ visits' = [visits EXCEPT !.loads = @ + 1]
  /\ now' = now + gap
  /\ pc' = "start"
  /\ verifying' = "none"
  /\ loadingDuration' = 0
  /\ isAuthenticated' = FALSE
  /\ connectedWallet' = NoWallet
  /\ attempts' = [w \in WalletTypes |-> NoAttempt]
  /\ timers' = <<>>
  /\ loadingScreen' = Element("", {})
  /\ authScreen' = Element("", {"hidden"})
  /\ mainContent' = Element("", {"hidden"})
  /\ progressBar' = 0
  /\ loadingPercentage' = 0
  /\ buttons' = [w \in WalletTypes |-> InitialButton(w)]
  /\ events' = <<>>
  /\ provCalls' = [op \in ProviderOps |-> 0]
  /\ logged' = [w \in WalletTypes |-> <<>>]
  /\ nLoadingStarts' = 0
  /\ nAuthShown' = 0
  /\ loaded' = storage
  /\ silentAnswer' = NotAsked
  /\ answer' = [w \in WalletTypes |-> NoAnswer]
  /\ UNCHANGED <<storage, solana, ethereum, solflare, nReauth, nClicks, reauthFrom>>
  /\ UNCHANGED <<detection, proxy, debounced>>

\* first visit with nothing stored; Phantom and MetaMask installed, or only a
\* Solflare that is not connected yet
VisitEnvironments ==
  { [solana |-> "phantom", ethereum |-> "metamask", solflare |-> SolflareAbsent],
    [solana |-> "absent", ethereum |-> "absent",
     solflare |-> SolflareState(FALSE, NoKey, NoKey)] }

VisitInit == InitWith({Absent}, VisitEnvironments)

VisitNext ==
  \/ \E opt \in LoadingDurationOptions :
       Construct(opt) /\ visits' = Resumed(visits) /\ UNCHANGED <<detection, proxy, debounced>>
  \/ \E out \in SilentOutcomes :
       SilentSettle(out) /\ visits' = Resumed(visits) /\ UNCHANGED <<detection, proxy, debounced>>
  \/ Advance /\ GateStep
  \/ UpdateProgressTimer /\ GateStep
  \/ TransitionToAuth /\ GateStep
  \/ ShowAuth /\ GateStep
  \/ TransitionToMainContent /\ GateStep
  \/ ShowMain /\ GateStep
  \/ ResetButton /\ GateStep
  \/ \E w \in WalletTypes : Click(w) /\ GateStep
  \/ \E resolved \in BOOLEAN : SolflareDisconnected(resolved) /\ GateStep
  \/ \E w \in WalletTypes : \E out \in ConnectOutcomes(w) :
       ConnectSettle(w, out) /\ visits' = Connected(visits)
         /\ UNCHANGED <<detection, proxy, debounced>>
  \/ \E gap \in VisitGaps : Reload(gap)

VisitSpec == VisitInit /\ [][VisitNext]_vars

(***************************************************************************)
(* MicroUtils.debounce of script.js: one debounced function, the calls made *)
(* to it and the invocations of func.  Time is counted in ms on a clock of  *)
(* its own; timeout is the due time of the pending setTimeout callback, 0   *)
(* when the closure's timeout is undefined, null or has fired.              *)
(***************************************************************************)
\* calls of the debounced function and ms of time followed in one run
MaxCalls == 4
MaxClock == 9

\* wait arguments, and the arguments the function is called with
DebounceWaits == {2, 3}
DebounceArgs == {1, 2}

Invocation(at, args) == [at |-> at, args |-> args]

\* debounce(func, wait, immediate) returns the function
debounce(wait, immediate) ==
  /\ ~debounced.created
  /\ debounced' = [debounced EXCEPT !.created = TRUE, !.wait = wait,
                                    !.immediate = immediate]
  /\ UNCHANGED <<gateVars, detection, proxy, visits>>

\* mutant: a pending callback is kept, not replaced
executedFunction_KeepsTimer(args) ==
  /\ debounced.created
  /\ debounced.nCalls < MaxCalls
  /\ LET callNow == debounced.immediate /\ debounced.timeout = 0 IN
     debounced' =
       [debounced EXCEPT
          !.timeout = IF @ = 0 THEN debounced.clock + debounced.wait ELSE @,
          !.pendingArgs = IF debounced.timeout = 0 THEN args ELSE @,
          !.nCalls = @ + 1,
          !.lastCall = debounced.clock,
          !.lastArgs = args,
          !.sinceCall = IF callNow THEN 1 ELSE 0,
          !.invoked = IF callNow THEN Append(@, Invocation(debounced.clock, args))
                                 ELSE @]
  /\ UNCHANGED <<gateVars, detection, proxy, visits>>

\* executedFunction(...args): a call of the debounced function
executedFunction(args) ==
  /\ debounced.created
  /\ debounced.nCalls < MaxCalls
  /\ LET callNow == debounced.immediate /\ debounced.timeout = 0 IN
     debounced' =
       [debounced EXCEPT
          !.timeout = debounced.clock + debounced.wait,
          !.pendingArgs = args,
          !.nCalls = @ + 1,
          !.lastCall = debounced.clock,
          !.lastArgs = args,
          !.sinceCall = IF callNow THEN 1 ELSE 0,
          !.invoked = IF callNow THEN Append(@, Invocation(debounced.clock, args))
                                 ELSE @]
  /\ UNCHANGED <<gateVars, detection, proxy, visits>>

\* the setTimeout callback of the last call runs
later ==
  /\ debounced.timeout # 0
  /\ debounced.timeout <= debounced.clock
  /\ debounced' =
       [debounced EXCEPT
          !.timeout = 0,
          !.sinceCall = IF debounced.immediate THEN @ ELSE @ + 1,
          !.invoked = IF debounced.immediate
                        THEN @
                        ELSE Append(@, Invocation(debounced.clock,
                                                  debounced.pendingArgs))]
  /\ UNCHANGED <<gateVars, detection, proxy, visits>>

\* a millisecond passes; a callback that is due runs first
Tick ==
  /\ debounced.created
  /\ debounced.clock < MaxClock
  /\ debounced.timeout = 0 \/ debounced.timeout > debounced.clock
  /\ debounced' = [debounced EXCEPT !.clock = @ + 1]
  /\ UNCHANGED <<gateVars, detection, proxy, visits>>

\* the script loaded, debounce not called yet
DebounceInit ==
  InitWith({Absent},
           {[solana |-> "absent", ethereum |-> "absent", solflare |-> SolflareAbsent]})

DebounceNext ==
  \/ \E wait \in DebounceWaits : \E immediate \in BOOLEAN : debounce(wait, immediate)
  \/ \E args \in DebounceArgs : executedFunction(args)
  \/ later
  \/ Tick

DebounceSpec == DebounceInit /\ [][DebounceNext]_vars

(***************************************************************************)
(* Properties                                                              *)
(***************************************************************************)
ExactlyOneVisible ==
  \/ LoadingVisible /\ ~AuthVisible /\ ~MainVisible
  \/ ~LoadingVisible /\ AuthVisible /\ ~MainVisible
  \/ ~LoadingVisible /\ ~AuthVisible /\ MainVisible

\* the record found at page load is an object whose age exceeds 24 hours
LoadedExpired ==
  /\ loaded.kind = "object"
  /\ loaded.hasTimestamp
  /\ PageLoadTime - loaded.timestamp > 86400000

\* the record found at page load is an object no older than 24 hours
LoadedUnexpired ==
  /\ loaded.kind = "object"
  /\ loaded.hasTimestamp
  /\ PageLoadTime - loaded.timestamp <= 86400000

\* the step is a forceReauth call
ReauthStep == nReauth' = nReauth + 1

\* the step ends init()
InitEnds == pc # "ready" /\ pc' = "ready"

\* the step ends the connect attempt of wallet w with the provider's answer
AttemptEnds(w) == attempts[w].phase = "connecting" /\ attempts'[w].phase = "idle"

\* the step runs a setTimeout callback that resets the control of wallet w
ResetStep(w) ==
  /\ TimerReady("resetButton")
  /\ timers[NextTimer].wallet = w
  /\ timers' = Remove(timers, NextTimer)

\* the failure kinds of the error taxonomy, read off the message that
\* reaches connectWallet's catch block
FailureKind(message) ==
  IF message = <<>> THEN "None"
  ELSE IF message = <<"Connection", "rejected", "by", "user">> THEN "UserRejected"
  ELSE IF message = <<"Connection", "request", "already", "pending">>
    THEN "RequestAlreadyPending"
  ELSE IF Len(message) >= 2 /\ SubSeq(message, 1, 2) = <<"Connection", "failed:">>
    THEN "ConnectionFailed"
  ELSE IF Includes(message, <<"not", "detected.">>) THEN "ProviderNotFound"
  ELSE "Other"

\* the provider object of wallet w is undefined
ProviderUndefined(w) ==
  CASE w = "phantom" -> solana = "absent"
    [] w = "solflare" -> ~solflare.present
    [] w = "metamask" -> ethereum = "absent"

\* C1: once init() has completed, exactly one of the loading screen, the auth
\* screen and the main content is visible, never two and never none.
C1_SingleActiveScreen == pc = "ready" => ExactlyOneVisible

\* C2: at startup a persisted record older than 86,400,000 ms is removed from
\* storage without any provider operation, and init starts the loading
\* sequence with the loading screen visible and the gate not authenticated.
C2_ExpiredRecordDiscarded ==
  [][ (pc = "start" /\ storage.kind = "object" /\ now - storage.timestamp > 86400000)
      => /\ storage'.kind = "absent"
         /\ provCalls' = provCalls
         /\ pc' = "ready"
         /\ LoadingVisible' /\ ~AuthVisible' /\ ~MainVisible'
         /\ ~isAuthenticated' /\ connectedWallet' = NoWallet
         /\ events' = <<>>
         /\ nLoadingStarts' = 1
         /\ progressBar' = 0
         /\ \E i \in DOMAIN timers' : /\ timers'[i].kind = "updateProgress"
                                      /\ timers'[i].startTime = now ]_vars

C2_Witness ==
  /\ pc = "ready" /\ nReauth = 0
  /\ LoadedExpired
  /\ storage.kind = "absent"
  /\ LoadingVisible /\ nLoadingStarts = 1

\* C3: when the silent check of an unexpired record is answered with an
\* address, init ends with main content shown and the other screens hidden,
\* exactly one walletConnected event dispatched, no loading sequence started
\* and the auth screen never displayed (as long as forceReauth is not called).
C3_SilentResume ==
  (pc = "ready" /\ nReauth = 0 /\ silentAnswer.kind = "resolve" /\ silentAnswer.key # NoKey)
    => /\ MainVisible /\ ~LoadingVisible /\ ~AuthVisible
       /\ isAuthenticated
       /\ events = << [name |-> "walletConnected",
                       detail |-> [type |-> loaded.walletType,
                                   publicKey |-> silentAnswer.key,
                                   address |-> silentAnswer.key]] >>
       /\ nLoadingStarts = 0
       /\ nAuthShown = 0
       /\ timers = <<>>

C3_Witness ==
  /\ pc = "ready" /\ nReauth = 0
  /\ LoadedUnexpired /\ loaded.walletType = "phantom"
  /\ silentAnswer.kind = "resolve" /\ silentAnswer.key # NoKey
  /\ MainVisible /\ Len(events) = 1

\* C4: forceReauth called while Authenticated (main content visible,
\* isAuthenticated true) leaves the loading screen visible, main content and
\* auth screen hidden, isAuthenticated false, connectedWallet null and no
\* Session Record in storage, whatever the connected wallet type.
C4_ReauthFromAuthenticated ==
  [][ (ReauthStep /\ MainVisible /\ isAuthenticated
         /\ connectedWallet.type \in WalletTypes)
      => /\ LoadingVisible' /\ ~MainVisible' /\ ~AuthVisible'
         /\ ~isAuthenticated'
         /\ connectedWallet' = NoWallet
         /\ storage'.kind = "absent" ]_vars

C4_Witness ==
  /\ reauthFrom.called /\ reauthFrom.main /\ reauthFrom.authenticated
  /\ reauthFrom.type = "solflare"
  /\ LoadingVisible /\ ~MainVisible /\ ~AuthVisible
  /\ storage.kind = "absent"

\* C5: every forceReauth call, from any state, removes the Session Record,
\* dispatches exactly one walletDisconnected event, writes 0% to the progress
\* indicator and starts a loading sequence.
C5_ReauthEffects ==
  [][ ReauthStep
      => /\ storage'.kind = "absent"
         /\ events' = Append(events, [name |-> "walletDisconnected", detail |-> NoWallet])
         /\ progressBar' = 0 /\ loadingPercentage' = 0
         /\ nLoadingStarts' = nLoadingStarts + 1
         /\ Len(timers') = Len(timers) + 1
         /\ timers'[Len(timers')].kind = "updateProgress"
         /\ timers'[Len(timers')].startTime = now ]_vars

C5_Witness ==
  /\ reauthFrom.called /\ reauthFrom.auth /\ ~reauthFrom.main
  /\ storage.kind = "absent"
  /\ events # <<>> /\ events[Len(events)].name = "walletDisconnected"
  /\ progressBar = 0

\* C6 as stated: at startup with an unexpired record, when silent
\* verification fails the record is removed from storage and the gate enters
\* Loading.
C6_FailedVerificationRemovesRecord ==
  [][ (InitEnds /\ nReauth' = 0 /\ LoadedUnexpired
         /\ ~(silentAnswer'.kind = "resolve" /\ silentAnswer'.key # NoKey))
      => /\ storage'.kind = "absent"
         /\ LoadingVisible' /\ nLoadingStarts' = 1 ]_vars

\* C6 amended: at startup with an unexpired record, when silent verification
\* fails the gate enters Loading (not authenticated, loading sequence
\* started) and the persisted record is left in storage unchanged.
C6_FailedVerificationKeepsRecord ==
  [][ (InitEnds /\ nReauth' = 0 /\ LoadedUnexpired
         /\ ~(silentAnswer'.kind = "resolve" /\ silentAnswer'.key # NoKey))
      => /\ storage' = loaded
         /\ LoadingVisible' /\ ~AuthVisible' /\ ~MainVisible'
         /\ ~isAuthenticated' /\ connectedWallet' = NoWallet
         /\ nLoadingStarts' = 1 ]_vars

C6_Witness ==
  /\ pc = "ready" /\ nReauth = 0 /\ nClicks = 0
  /\ LoadedUnexpired
  /\ silentAnswer.kind = "reject"
  /\ storage = loaded
  /\ LoadingVisible /\ nLoadingStarts = 1

C8_MissingProviderFails ==
  [][ \A w \in WalletTypes :
        (nClicks' = nClicks + 1 /\ buttons'[w] # buttons[w] /\ ProviderUndefined(w))
        => /\ FailureKind(logged'[w]) = "ProviderNotFound"
           /\ provCalls' = provCalls
           /\ storage' = storage ]_vars

\* C9: when the provider rejects an interactive connect with code 4001 the
\* control shows the error label and a reset is scheduled 3000 ms later; the
\* reset restores the labels the control had before the attempt and
\* re-enables it; neither step changes the visible screen or isAuthenticated
\* or dispatches an event.
C9_UserRejection ==
  [][ \A w \in WalletTypes :
        /\ (attempts[w].phase = "idle" /\ attempts'[w].phase # "idle")
           => /\ attempts'[w].originalName = buttons[w].walletName
              /\ attempts'[w].originalConnect = buttons[w].connectText
        /\ (AttemptEnds(w) /\ answer'[w].kind = "reject" /\ answer'[w].error.code = 4001)
           => /\ buttons'[w].walletName = "CONNECTION FAILED"
              /\ buttons'[w].connectText = "ERROR"
              /\ buttons'[w].disabled
              /\ timers' = Append(timers,
                     [kind |-> "resetButton", due |-> now + 3000, startTime |-> 0,
                      wallet |-> w,
                      originalName |-> attempts[w].originalName,
                      originalConnect |-> attempts[w].originalConnect])
              /\ UNCHANGED <<loadingScreen, authScreen, mainContent,
                             isAuthenticated, connectedWallet, events, storage>>
        /\ (ResetStep(w) /\ answer[w].kind = "reject" /\ answer[w].error.code = 4001)
           => /\ now = timers[NextTimer].due
              /\ buttons'[w].walletName = timers[NextTimer].originalName
              /\ buttons'[w].connectText = timers[NextTimer].originalConnect
              /\ buttons'[w].walletName = IdleName(w)
              /\ buttons'[w].connectText = IdleConnect
              /\ ~buttons'[w].disabled /\ buttons'[w].pointerEvents # "none"
              /\ UNCHANGED <<loadingScreen, authScreen, mainContent,
                             isAuthenticated, connectedWallet, events, storage>> ]_vars

C9_Witness ==
  /\ answer["phantom"].kind = "reject" /\ answer["phantom"].error.code = 4001
  /\ buttons["phantom"] = InitialButton("phantom")
  /\ \A i \in DOMAIN timers : timers[i].kind # "resetButton"
  /\ AuthVisible /\ ~MainVisible /\ ~LoadingVisible
  /\ ~isAuthenticated /\ events = <<>>

\* C10: the progress values written by the loading timers never decrease and
\* never exceed 100%, and transitionToAuth is scheduled only by a callback
\* that has written exactly 100%.
C10_ProgressMonotone ==
  [][ (pc = "ready" /\ ~ReauthStep)
      => /\ progressBar' >= progressBar
         /\ progressBar' <= 10000
         /\ (Len(timers') > 0 /\ timers' # timers
               /\ timers'[Len(timers')].kind = "transitionToAuth"
               /\ Len(timers') >= Len(timers)
             => progressBar' = 10000) ]_vars

\* C11: for each adapter, when the provider's answer to the interactive
\* connect lacks the key or address in the response while the provider exposes
\* it through a fallback (a property of the provider object, or its nested
\* wallet object), the attempt succeeds with the non-empty wallet
\* {type, address} of that key.
C11_FallbackAddress ==
  [][ \A w \in WalletTypes :
        (AttemptEnds(w) /\ answer'[w].kind = "resolve"
           /\ answer'[w].via \in {"property", "nested"} /\ answer'[w].key # NoKey)
        => /\ connectedWallet'.type = w
           /\ connectedWallet'.address = answer'[w].key
           /\ connectedWallet'.address # NoKey
           /\ isAuthenticated' ]_vars

\* the step ends init() the way it does for a false result of
\* verifyWalletConnection: the loading sequence starts, nothing is shown on
\* the wallet controls, nothing is logged as a connect error, no event is
\* dispatched and the gate is not authenticated
QuietFailure ==
  /\ pc' = "ready"
  /\ nLoadingStarts' = nLoadingStarts + 1
  /\ ~isAuthenticated' /\ connectedWallet' = NoWallet
  /\ buttons' = buttons /\ logged' = logged /\ events' = events
  /\ authScreen' = authScreen /\ mainContent' = mainContent

\* C12: verifyWalletConnection resolves to false, without throwing to its
\* caller and without any error shown to the user, for every stored wallet
\* type whose provider is absent and when a present provider's silent call
\* rejects.
C12_SilentFailureIsQuiet ==
  [][ /\ (pc = "start" /\ storage.kind = "object" /\ storage.hasTimestamp
           /\ now - storage.timestamp <= 86400000
           /\ storage.walletType \in WalletTypes
           /\ ProviderUndefined(storage.walletType))
         => QuietFailure /\ provCalls' = provCalls
      /\ (pc = "init" /\ pc' = "ready" /\ silentAnswer'.kind = "reject")
         => QuietFailure ]_vars

C12_Witness ==
  /\ pc = "ready" /\ nClicks = 0
  /\ LoadedUnexpired /\ loaded.walletType = "metamask" /\ ethereum = "absent"
  /\ silentAnswer.kind = "notAsked"
  /\ LoadingVisible /\ ~isAuthenticated
  /\ \A w \in WalletTypes : buttons[w] = InitialButton(w)

\* C13: until init() has completed, whatever is stored and whatever the
\* providers are, no interactive connect, request-accounts or disconnect
\* operation is invoked: the only provider operations of startup are Phantom's
\* connect with onlyIfTrusted, MetaMask's eth_accounts and the read of
\* Solflare's publicKey.
C13_SilentOnly ==
  [][ pc # "ready"
      => /\ \A op \in {"solana.connect", "solflare.connect", "solflare.disconnect",
                       "ethereum.eth_requestAccounts"} :
              provCalls'[op] = 0
         /\ \A op \in DOMAIN provCalls' :
              provCalls'[op] # provCalls[op]
              => op \in {"solana.connect(onlyIfTrusted)", "ethereum.eth_accounts",
                         "solflare.publicKey"} ]_vars

C13_Witness ==
  /\ pc = "ready" /\ nClicks = 0
  /\ loaded.walletType = "metamask" /\ ethereum = "metamask"
  /\ provCalls["ethereum.eth_accounts"] = 1
  /\ provCalls["ethereum.eth_requestAccounts"] = 0
  /\ silentAnswer.kind = "resolve"

\* C14: once the gate is Authenticated (isAuthenticated, main content visible,
\* loading and auth screens hidden) it stays so until forceReauth is next
\* called: no timer callback and no provider continuation shows the loading
\* or the auth screen, hides main content or resets isAuthenticated.
C14_AuthenticatedIsStable ==
  [][ (isAuthenticated /\ MainVisible /\ ~LoadingVisible /\ ~AuthVisible
         /\ ~ReauthStep)
      => (isAuthenticated' /\ MainVisible' /\ ~LoadingVisible' /\ ~AuthVisible') ]_vars

\* C15: while a connect attempt for a wallet type is in flight, that type's
\* control is disabled and shows the busy labels, a click is taken by a
\* control only when no attempt for its type is in flight, and the click
\* changes neither the controls nor the attempts of the other types.
C15_BusyControl ==
  [][ \A w \in WalletTypes :
        /\ attempts'[w].phase # "idle"
           => /\ buttons'[w].disabled
              /\ buttons'[w].pointerEvents = "none"
              /\ buttons'[w].walletName = "CONNECTING..."
              /\ buttons'[w].connectText = "WAIT..."
        /\ (nClicks' = nClicks + 1 /\ buttons'[w] # buttons[w])
           => /\ attempts[w].phase = "idle"
              /\ \A v \in WalletTypes \ {w} :
                   buttons'[v] = buttons[v] /\ attempts'[v] = attempts[v] ]_vars

\* attempts for two wallet types in flight at once, the third control idle
C15_Witness ==
  /\ attempts["phantom"].phase = "connecting"
  /\ attempts["metamask"].phase = "connecting"
  /\ buttons["phantom"].disabled /\ buttons["metamask"].disabled
  /\ buttons["solflare"] = InitialButton("solflare")

\* C16: the step that ends an interactive attempt in success writes the
\* Session Record, dispatches exactly one walletConnected event carrying
\* {type, publicKey, address} of the connected wallet and schedules the
\* transition to main content 1500 ms later; for 1500 ms after a success the
\* auth screen remains the one visible screen (stated for runs without
\* forceReauth).
C16_SuccessOrder ==
  [][ nReauth' = 0 =>
      /\ \A w \in WalletTypes :
           (AttemptEnds(w) /\ answer'[w].kind = "resolve" /\ events' # events)
           => /\ storage'.kind = "object" /\ storage'.walletType = w
              /\ storage'.timestamp = now
              /\ storage'.address = connectedWallet'.address
              /\ events' = Append(events,
                     [name |-> "walletConnected",
                      detail |-> [type |-> w,
                                  publicKey |-> connectedWallet'.publicKey,
                                  address |-> connectedWallet'.address]])
              /\ connectedWallet'.address # NoKey
              /\ Len(timers') = Len(timers) + 1
              /\ timers'[Len(timers')].kind = "transitionToMainContent"
              /\ timers'[Len(timers')].due = now + 1500
      /\ (\E i \in DOMAIN timers' : /\ timers'[i].kind = "transitionToMainContent"
                                     /\ now' < timers'[i].due)
         => AuthVisible' /\ ~MainVisible' /\ ~LoadingVisible' ]_vars

\* the user-rejection signal of the adapter of wallet w: the rejection code,
\* or the adapter's message substring ('User rejected' for Phantom,
\* 'rejected' for Solflare, none for MetaMask)
RejectionSignal(w, error) ==
  \/ error.code = 4001
  \/ w = "phantom" /\ Includes(error.message, <<"User", "rejected">>)
  \/ w = "solflare" /\ Includes(error.message, <<"rejected">>)

\* C17: for each adapter, a provider error carrying the user-rejection signal
\* makes the attempt fail as UserRejected (never ConnectionFailed), and the
\* errors the adapter raises itself (no key or account in the answer,
\* provider missing) are never UserRejected.
C17_UserRejectedKind ==
  [][ \A w \in WalletTypes :
        /\ (AttemptEnds(w) /\ answer'[w].kind = "reject"
              /\ RejectionSignal(w, answer'[w].error))
           => FailureKind(logged'[w]) = "UserRejected"
        /\ (AttemptEnds(w) /\ answer'[w].kind = "resolve" /\ events' = events)
           => FailureKind(logged'[w]) \notin {"UserRejected", "None"}
        /\ (nClicks' = nClicks + 1 /\ buttons'[w] # buttons[w]
              /\ attempts'[w].phase = "idle")
           => FailureKind(logged'[w]) \notin {"UserRejected", "None"} ]_vars

\* Phantom rejected with a message-only signal, MetaMask with a code-only one
C17_Witness ==
  /\ answer["phantom"].kind = "reject" /\ answer["phantom"].error.code = 0
  /\ logged["phantom"] = <<"Connection", "rejected", "by", "user">>
  /\ answer["metamask"].kind = "reject"
  /\ answer["metamask"].error.message = <<"Denied">>
  /\ logged["metamask"] = <<"Connection", "rejected", "by", "user">>

\* C18: for each adapter, a provider error with the 'request already
\* pending' code -32002 makes the attempt fail as RequestAlreadyPending, a
\* kind other than UserRejected and ConnectionFailed.
C18_AlreadyPendingKind ==
  [][ \A w \in WalletTypes :
        (AttemptEnds(w) /\ answer'[w].kind = "reject"
           /\ answer'[w].error.code = 0 - 32002)
        => FailureKind(logged'[w]) = "RequestAlreadyPending" ]_vars

\* the provider object of wallet w is present and does not identify as the
\* expected wallet (isPhantom, isMetaMask, isSolflare not set)
ProviderUnidentified(w) ==
  CASE w = "phantom" -> solana = "other"
    [] w = "solflare" -> solflare.present /\ ~solflare.isSolflare
    [] w = "metamask" -> ethereum = "other"

\* C19: for each wallet type, with a provider object that is present and
\* does not identify as the expected wallet, a click on the control fails the
\* attempt without any provider operation, and startup with an unexpired
\* record of that type ends in the loading sequence without any provider
\* operation or read of the provider's key.
C19_UnidentifiedProvider ==
  [][ \A w \in WalletTypes :
        /\ (nClicks' = nClicks + 1 /\ buttons'[w] # buttons[w]
              /\ ProviderUnidentified(w))
           => /\ provCalls' = provCalls
              /\ attempts'[w].phase = "idle"
              /\ buttons'[w].walletName = "CONNECTION FAILED"
              /\ UNCHANGED <<isAuthenticated, connectedWallet, events, storage>>
        /\ (pc = "start" /\ storage.kind = "object" /\ storage.hasTimestamp
              /\ now - storage.timestamp <= 86400000
              /\ storage.walletType = w /\ ProviderUnidentified(w))
           => /\ provCalls' = provCalls
              /\ pc' = "ready"
              /\ ~isAuthenticated' /\ events' = events
              /\ nLoadingStarts' = nLoadingStarts + 1 ]_vars

\* the value found at page load is malformed: text that is not JSON, a JSON
\* value that is not an object, or an object without a numeric timestamp or
\* without a known walletType
LoadedMalformed ==
  \/ loaded.kind \in {"text", "null", "scalar"}
  \/ /\ loaded.kind = "object"
     /\ ~loaded.hasTimestamp \/ loaded.walletType \notin WalletTypes

\* C20: for every malformed persisted value, startup removes the stored value
\* and enters Loading (loading sequence started, not authenticated), as it
\* does for an absent or expired record.
C20_MalformedDiscarded ==
  [][ (InitEnds /\ LoadedMalformed)
      => /\ storage'.kind = "absent"
         /\ nLoadingStarts' = 1
         /\ LoadingVisible' /\ ~AuthVisible' /\ ~MainVisible'
         /\ ~isAuthenticated' /\ connectedWallet' = NoWallet ]_vars

\* C21: with no usable stored session the gate goes from Loading to the auth
\* screen by its own timers alone: no step of wallet detection (at setup, by
\* an event listener, by the polling callback, by the load listener or by
\* manualDetectWallets) changes the visible screens, isAuthenticated,
\* connectedWallet, the Session Record or the gate's pending callbacks, and
\* once init() has ended unauthenticated the auth screen is eventually shown,
\* whether the providers are present, are injected later or never appear.
C21_DetectionNeverBlocks ==
  /\ [][ (detection' # detection /\ pc' = pc)
         => UNCHANGED <<loadingScreen, authScreen, mainContent, isAuthenticated,
                        connectedWallet, storage, timers, progressBar, events>> ]_vars
  /\ ((pc = "ready" /\ ~isAuthenticated) ~> AuthVisible)

\* the auth screen is shown while window.solana never appeared and polling
\* goes on, window.ethereum having been injected and detected after startup
C21_Witness ==
  /\ AuthVisible /\ ~isAuthenticated
  /\ solana = "absent" /\ detection.polls >= 3
  /\ ethereum = "metamask" /\ detection.ethereumListener
  /\ detection.seen.metamask

\* C22: within one authentication cycle, once a Connect Attempt has
\* succeeded, the end of an attempt for a different wallet type (in flight
\* before the success or started after it) leaves connectedWallet and the
\* Session Record unchanged and dispatches no further walletConnected.
C22_FirstSuccessAuthoritative ==
  [][ \A w \in WalletTypes :
        (AttemptEnds(w) /\ isAuthenticated /\ connectedWallet.type # w)
        => UNCHANGED <<connectedWallet, storage, events>> ]_vars

\* the step runs the setTimeout callback of the given kind
CallbackStep(kind) == TimerReady(kind) /\ timers' = Remove(timers, NextTimer)

\* C23: started with empty storage and the same loading duration, every
\* handler of the part_000 variant leaves what the handler of wallet-auth.js
\* leaves for the same input: the same persisted storage and notifications
\* after a successful attempt and after forceReauth, and the same visible
\* screens after the callbacks that show the auth screen and main content and
\* after forceReauth.
C23_VariantsEquivalent ==
  [][ loaded.kind = "absent" =>
      /\ \A w \in WalletTypes :
           (AttemptEnds(w) /\ isAuthenticated' /\ events' # events)
           => /\ storage' = storeWalletConnection(connectedWallet', now)
              /\ events' = Append(events, ConnectedEvent(connectedWallet'))
      /\ ReauthStep
         => /\ storage' = clearStoredConnection
            /\ events' = Append(events, DisconnectedEvent)
            /\ LoadingVisible'
            /\ AuthVisible' = Visible(Hide(authScreen))
            /\ MainVisible' = Visible(Hide(mainContent))
      /\ CallbackStep("showAuth")
         => /\ ~LoadingVisible'
            /\ AuthVisible' = Visible(Element("flex", authScreen.classes \ {"hidden"}))
      /\ CallbackStep("showMain")
         => /\ AuthVisible' = Visible(Hide(authScreen))
            /\ MainVisible' = Visible(Show(mainContent)) ]_vars

\* C25: in the part_000 variant startup reads no storage and calls no
\* provider: whatever is stored and whatever the providers are, the
\* constructor leaves the gate in Loading with the stored value untouched, and
\* the gate is authenticated only after the auth screen has been shown (the
\* loading sequence having completed) and a clicked Connect Attempt of the
\* connected type has been answered with a key.
C25_VariantNeverResumes ==
  /\ [][ pc = "start"
         => /\ pc' = "ready" /\ nLoadingStarts' = 1
            /\ LoadingVisible' /\ ~AuthVisible' /\ ~MainVisible'
            /\ ~isAuthenticated' /\ connectedWallet' = NoWallet
            /\ UNCHANGED <<storage, provCalls, events>> ]_vars
  /\ [](isAuthenticated
        => /\ nAuthShown >= 1 /\ nClicks >= 1
           /\ connectedWallet.type \in WalletTypes
           /\ answer[connectedWallet.type].kind = "resolve"
           /\ \A op \in SilentOps \ {"solflare.publicKey"} : provCalls[op] = 0)

\* authenticated through the auth screen although an unexpired record of a
\* connected Solflare was stored at page load
C25_Witness ==
  /\ isAuthenticated /\ MainVisible
  /\ loaded.kind = "object" /\ loaded.walletType = "solflare"
  /\ solflare.present /\ solflare.isConnected
  /\ storage = loaded
  /\ nAuthShown = 1 /\ nReauth = 0

\* C24: on the page as initWalletAuth starts it (the controller constructed
\* with no options), progress reaches 100% and transitionToAuth is scheduled
\* only by an updateProgress callback that runs at least 10,000 ms after its
\* loading sequence started.
C24_TenSecondLoading ==
  [][ \/ progressBar' = 10000 /\ progressBar # 10000
      \/ /\ Len(timers') > 0 /\ timers' # timers
         /\ timers'[Len(timers')].kind = "transitionToAuth"
      => /\ TimerReady("updateProgress")
         /\ now - timers[NextTimer].startTime >= 10000 ]_vars

\* the handler has sent its response
Answered == proxy.pc = "done"

\* the turn of endpoint number j ended without a response
EndpointFailed(j) ==
  proxy.outcomes[j] \in {"rejected", "aborted", "notOk", "null", "notArray",
                         "nullElement", "unparsable"}

\* C26: the secure proxy answers each request exactly once: the endpoints are
\* contacted in list order; a turn that ends in a rejected or aborted fetch, a
\* non-OK response or a body that fails to parse or to pass the format check
\* is followed by the next endpoint; the first OK response with a valid body
\* is answered with the success envelope of that endpoint and no later
\* endpoint is contacted; the 502 envelope is sent exactly when every
\* endpoint has failed; and every request that arrived is answered.
C26_AnsweredExactlyOnce ==
  /\ [](/\ Len(proxy.answers) <= 1
        /\ \A j \in DOMAIN proxy.contacted : proxy.contacted[j] = j
        /\ \A j \in DOMAIN proxy.outcomes :
             j < Len(proxy.contacted) => EndpointFailed(j))
  /\ [](Answered
        => /\ Len(proxy.answers) = 1
           /\ Len(proxy.outcomes) = Len(proxy.contacted)
           /\ LET a == proxy.answers[1]
                  k == Len(proxy.contacted)
              IN /\ a.success = (proxy.outcomes[k] = "ok")
                 /\ a.success => /\ a.status = 200 /\ a.timestamp
                                 /\ a.source = ALLOWED_ENDPOINTS[k]
                                 /\ a.count = Len(a.tokens)
                 /\ ~a.success => a.status = 502 /\ a.timestamp
                 /\ (a.status = 502) =
                      (/\ k = Len(ALLOWED_ENDPOINTS)
                       /\ \A j \in 1..k : EndpointFailed(j)))
  /\ (proxy.pc # "idle" ~> Answered)

\* the step ends a connect attempt of wallet w in connectWallet's catch block
\* (the error state of the control is shown and its reset is scheduled)
AttemptFails(w) ==
  /\ Len(timers') = Len(timers) + 1
  /\ timers'[Len(timers')].kind = "resetButton"
  /\ timers'[Len(timers')].wallet = w

\* C27: a failed interactive Connect Attempt, whatever its failure kind, leaves
\* the Session Record, isAuthenticated and connectedWallet unchanged and
\* dispatches no event; and every step that changes the stored value is a
\* successful interactive attempt writing its record, a removal at startup of
\* an expired or unparsable value, or a removal by forceReauth.  (The value
\* is read by checkExistingConnection alone, which only init() calls.)
C27_FailedAttemptFrame ==
  [][ /\ \A w \in WalletTypes :
           AttemptFails(w)
           => UNCHANGED <<storage, isAuthenticated, connectedWallet, events>>
      /\ storage' # storage
         => \/ \E w \in WalletTypes :
                 /\ AttemptEnds(w)
                 /\ events' = Append(events, ConnectedEvent(connectedWallet'))
                 /\ storage'.kind = "object"
                 /\ storage'.walletType = w
            \/ /\ pc = "start"
               /\ storage'.kind = "absent"
               /\ \/ ParseThrows(storage)
                  \/ storage.kind = "object" /\ Expired(storage, now)
            \/ ReauthStep /\ storage'.kind = "absent" ]_vars

\* an attempt has failed over an unexpired record kept from startup, which is
\* still stored, and nothing was dispatched
C27_Witness ==
  /\ \E w \in WalletTypes : FailureKind(logged[w]) \in {"UserRejected", "ConnectionFailed"}
  /\ loaded.kind = "object"
  /\ storage = loaded
  /\ ~isAuthenticated
  /\ connectedWallet = NoWallet
  /\ events = <<>>

\* C28: main content is visible only while isAuthenticated is true and
\* connectedWallet is non-null, in every reachable state.
C28_MainOnlyWhileAuthenticated ==
  MainVisible => (isAuthenticated /\ connectedWallet # NoWallet)

\* C29: in every state between two tasks of the event loop, isAuthenticated
\* is true exactly when connectedWallet is non-null, and a non-null
\* connectedWallet has a type among phantom, metamask and solflare and a
\* publicKey equal to its address.
C29_WalletConsistent ==
  /\ isAuthenticated <=> connectedWallet # NoWallet
  /\ connectedWallet # NoWallet
     => /\ connectedWallet.type \in WalletTypes
        /\ connectedWallet.publicKey = connectedWallet.address

\* a wallet connected interactively after a forceReauth call
C29_Witness ==
  /\ nReauth = 1
  /\ nClicks = 1
  /\ isAuthenticated
  /\ connectedWallet = Wallet("metamask", "K2")

\* the pending callbacks of the given kind
Pending(kind) == {i \in DOMAIN timers : timers[i].kind = kind}

\* C30: at most one loading sequence (chain of progress-update callbacks) is
\* active at any time, and the entries into Loading and the transitionToAuth
\* calls they lead to correspond one to one: every loading sequence started
\* is either still running or has led to exactly one transitionToAuth.
C30_SingleLoadingSequence ==
  /\ Cardinality(Pending("updateProgress")) <= 1
  /\ nLoadingStarts = Cardinality(Pending("updateProgress"))
                      + Cardinality(Pending("transitionToAuth"))
                      + Cardinality(Pending("showAuth")) + nAuthShown

\* C31: whenever the auth screen becomes visible, at first entry and after
\* every forceReauth cycle, every wallet control is enabled and shows its
\* idle labels.
C31_ControlsIdleOnAuth ==
  [][ (~AuthVisible /\ AuthVisible')
      => \A w \in WalletTypes : buttons'[w] = InitialButton(w) ]_vars

\* C32: after forceReauth has been called from Authenticated (main content
\* shown), the callback that ends the restarted loading sequence leaves the
\* auth screen visible: its inline display is not 'none' and it carries
\* neither the 'hidden' class nor the 'fade-out' class of the earlier
\* transition to main content.
C32_AuthScreenRestored ==
  [][ (CallbackStep("showAuth") /\ reauthFrom.authenticated /\ reauthFrom.main)
      => /\ authScreen'.display # "none"
         /\ authScreen'.classes \cap {"hidden", "fade-out"} = {} ]_vars

\* the step ends init() with a successful silent resume
ResumeStep == InitEnds /\ isAuthenticated'

\* C33: a successful silent resume leaves the persisted Session Record as it
\* was found (timestamp and stored address included), sets connectedWallet to
\* the stored wallet type with the address the provider returns at
\* verification and dispatches walletConnected with that wallet; and at every
\* page load the stored record is removed as expired exactly when more than
\* 24 hours have passed since the last successful interactive connect,
\* however many times it has been resumed since.
C33_ResumeKeepsRecord ==
  [][ /\ ResumeStep
         => /\ storage' = loaded
            /\ silentAnswer'.key # NoKey
            /\ connectedWallet' = Wallet(loaded.walletType, silentAnswer'.key)
            /\ events' = <<ConnectedEvent(connectedWallet')>>
      /\ (pc = "start" /\ pc' # "start" /\ storage.kind = "object")
         => (storage'.kind = "absent"
               <=> now - visits.connectedAt > SessionLifetime) ]_vars

\* a record resumed on the second later visit, 16 hours after the connect, by
\* a provider that returns an address other than the stored one
C33_Witness ==
  /\ visits.resumes = 2
  /\ visits.loads = 3
  /\ pc = "ready"
  /\ isAuthenticated
  /\ storage = loaded
  /\ storage.kind = "object"
  /\ now - storage.timestamp > SessionLifetime \div 2
  /\ connectedWallet.address # storage.address

\* C34: init() always leaves the Resuming sub-path: whatever the stored value
\* and whatever the provider does, a silent provider call that never settles
\* included, init() eventually ends, having shown main content or started the
\* loading sequence and installed the click handlers of the wallet controls.
C34_InitTerminates ==
  (pc = "init") ~> (pc = "ready" /\ (MainVisible \/ nLoadingStarts > 0))

\* the pending callbacks of the solana polling, and those of them that are due
PollTimers ==
  {i \in DOMAIN detection.timers : detection.timers[i].kind = "checkSolanaProvider"}

DuePolls == {i \in PollTimers : detection.timers[i].due <= now}

\* the step runs the polling callback
PollStep == Cardinality(DuePolls') < Cardinality(DuePolls)

\* C35: at most one callback of the solana polling is pending at any time; a
\* run of the callback that finds window.solana set schedules nothing, and one
\* that finds it unset schedules the next run 1000 ms later, every time; the
\* polling starts at the end of init() only, and forceReauth leaves the
\* callbacks and listeners of detection as they are.
C35_SinglePollTimer ==
  /\ [](Cardinality(PollTimers) <= 1)
  /\ [][ /\ PollStep
            => IF solana # "absent"
                 THEN PollTimers' = {}
                 ELSE \E i \in PollTimers' :
                        detection'.timers[i].due = now + SolanaPollInterval
         /\ (PollTimers = {} /\ PollTimers' # {}) => InitEnds
         /\ ReauthStep => detection' = detection ]_vars

\* after two forceReauth calls and three runs of the callback that found no
\* provider, one run of the callback is pending
C35_Witness ==
  /\ nReauth = 2
  /\ solana = "absent"
  /\ detection.polls = 3
  /\ Cardinality(PollTimers) = 1

\* the place of the token with the given mint in an upstream list
SourceIndex(up, mint) == CHOOSE i \in DOMAIN up : up[i].mint = mint

\* C36: in every success envelope of the secure proxy, each returned token
\* comes from an upstream token that is complete, graduated or at 85 or more
\* of its bonding curve, the tokens are in upstream order and at most 50,
\* count is their number, status is 'graduated' exactly when the upstream
\* token is complete or graduated and 'bonding' otherwise, and
\* bonding_curve_progress is at most 100.
C36_SuccessEnvelopeSchema ==
  [][ \A body \in UpstreamBodies :
        (BodySettles(body) /\ proxy'.pc = "done"
           /\ proxy'.answers[Len(proxy'.answers)].success)
        => LET up == body.tokens
               envelope == proxy'.answers[Len(proxy'.answers)]
               out == envelope.tokens
           IN /\ envelope.count = Len(out)
              /\ Len(out) <= 50
              /\ \A k \in DOMAIN out :
                   /\ \E i \in DOMAIN up :
                        /\ up[i].mint = out[k].mint
                        /\ up[i].complete \/ up[i].graduated \/ up[i].progress >= 85
                        /\ out[k].status = "graduated"
                             <=> (up[i].complete \/ up[i].graduated)
                   /\ out[k].status \in {"graduated", "bonding"}
                   /\ out[k].bonding_curve_progress <= 100
              /\ \A k1, k2 \in DOMAIN out :
                   k1 < k2 => SourceIndex(up, out[k1].mint) < SourceIndex(up, out[k2].mint)
    ]_vars

\* a success envelope cut to 50 tokens, one of them still bonding and with
\* its progress of more than 100 cut to 100
C36_Witness ==
  /\ proxy.pc = "done"
  /\ \E n \in DOMAIN proxy.answers :
       /\ proxy.answers[n].success
       /\ proxy.answers[n].count = MaxTokens
       /\ \E k \in DOMAIN proxy.answers[n].tokens :
            /\ proxy.answers[n].tokens[k].status = "bonding"
            /\ proxy.answers[n].tokens[k].bonding_curve_progress = MaxProgress

\* C37: a persisted record whose age at startup is exactly 86,400,000 ms, or
\* any smaller age, a negative one from a timestamp in the future included,
\* is not removed by the expiry check and goes on to silent verification:
\* the stored value is left as it is, and where the provider of its wallet
\* type is installed the provider's silent call is made.
C37_ExpiryStrict ==
  [][ (pc = "start" /\ pc' # "start" /\ storage.kind = "object"
         /\ storage.hasTimestamp /\ now - storage.timestamp <= 86400000)
      => /\ storage' = storage
         /\ (storage.walletType = "phantom" /\ solana = "phantom")
            => /\ pc' = "init"
               /\ verifying' = "phantom"
               /\ provCalls'["solana.connect(onlyIfTrusted)"] = 1 ]_vars

\* a record aged exactly 24 hours was found, kept, and resumed by Phantom
C37_Witness ==
  /\ loaded.kind = "object" /\ loaded.hasTimestamp
  /\ PageLoadTime - loaded.timestamp = 86400000
  /\ pc = "ready"
  /\ storage = loaded
  /\ isAuthenticated /\ MainVisible

\* the step invokes func
Invokes == Len(debounced'.invoked) = Len(debounced.invoked) + 1

\* the step is a call of the debounced function
CallStep == debounced'.nCalls = debounced.nCalls + 1

\* the step is a call that comes more than wait ms after the call before it,
\* or is the first call
OpensBurst ==
  /\ CallStep
  /\ debounced.nCalls = 0 \/ debounced.clock > debounced.lastCall + debounced.wait

\* C38: with immediate = false, func is invoked once per burst of calls, wait
\* ms after the last call of the burst and with that call's arguments, and
\* never while calls keep arriving less than wait ms apart; with immediate =
\* true, func is invoked on the first call of a burst, with that call's
\* arguments, and on no other call until wait ms have passed without a call,
\* and never by the timer.
C38_Debounce ==
  /\ [](~debounced.immediate
        => /\ debounced.sinceCall <= 1
           /\ (debounced.nCalls > 0
                 /\ debounced.clock > debounced.lastCall + debounced.wait)
              => debounced.sinceCall = 1)
  /\ [][ /\ (Invokes /\ ~debounced.immediate)
            => /\ ~CallStep
               /\ debounced.clock = debounced.lastCall + debounced.wait
               /\ debounced'.invoked[Len(debounced'.invoked)] =
                    Invocation(debounced.clock, debounced.lastArgs)
         /\ (Invokes /\ debounced.immediate)
            => /\ CallStep
               /\ debounced.nCalls = 0
                    \/ debounced.clock >= debounced.lastCall + debounced.wait
               /\ debounced'.invoked[Len(debounced'.invoked)] =
                    Invocation(debounced.clock, debounced'.lastArgs)
         /\ (OpensBurst /\ debounced.immediate) => Invokes ]_vars

\* immediate = false: two bursts of two calls each, func invoked once after
\* each with the arguments of the burst's last call
C38_Witness ==
  /\ ~debounced.immediate
  /\ debounced.wait = 2
  /\ debounced.nCalls = 4
  /\ Len(debounced.invoked) = 2
  /\ debounced.invoked[1].args = 1
  /\ debounced.invoked[2].args = 2

====
